---- MODULE Spec2Model ----
(***************************************************************************)
(* RF-mindmap: the graph construction, URL attachment, URL panel and CSV   *)
(* export of the page scripts.                                             *)
(*                                                                         *)
(* The repository holds three generations of the page script:              *)
(*   "csv"   src/js/main.js       topics.csv + links.csv + urls.csv,       *)
(*                                createD3Graph builds the graph            *)
(*   "merge" src/unnamed/part_000 d3_graph_data.json + urls.csv,           *)
(*                                mergeUrlsIntoGraph attaches the urls      *)
(*   "json"  src/unnamed/part_001 d3_graph_data_hierarchical.json, urls    *)
(*                                already embedded                          *)
(* The variable mode says which script the page runs.                      *)
(*                                                                         *)
(* A JavaScript string is a sequence of characters; a character is a       *)
(* one-element TLA+ string.  The characters , " | . newline and space are  *)
(* themselves; any other element (such as "1", "a", "https://x/") stands   *)
(* for a run of ordinary characters holding none of those six.             *)
(* A JavaScript array that is shared by reference is a cell of heap; an    *)
(* element's urls field holds the index of its cell, 0 for undefined.      *)
(***************************************************************************)
EXTENDS Integers, Sequences, FiniteSets, TLC

COMMA == ","
QUOTE == "\""
NEWLINE == "\n"
PIPE == "|"
DOT == "."
SPACE == " "

Undefined == 0

(* ---------------------------------------------------------------------- *)
(* Bounds of the model                                                     *)
(* ---------------------------------------------------------------------- *)
MaxTopics == 3
MaxLinks == 1
MaxUrlRecords == 3
MaxAdds == 2
MaxLookups == 2

(* ---------------------------------------------------------------------- *)
(* String primitives of the JavaScript runtime                             *)
(* ---------------------------------------------------------------------- *)
RECURSIVE split(_, _)
split(s, sep) ==
    IF \A i \in 1..Len(s) : s[i] # sep
    THEN <<s>>
    ELSE LET k == CHOOSE i \in 1..Len(s) :
                      s[i] = sep /\ \A j \in 1..(i - 1) : s[j] # sep
         IN  <<SubSeq(s, 1, k - 1)>> \o split(SubSeq(s, k + 1, Len(s)), sep)

RECURSIVE join(_, _)
join(parts, sep) ==
    IF Len(parts) = 0 THEN <<>>
    ELSE IF Len(parts) = 1 THEN parts[1]
    ELSE parts[1] \o <<sep>> \o join(Tail(parts), sep)

RECURSIVE trim(_)
trim(s) ==
    IF Len(s) = 0 THEN s
    ELSE IF s[1] = SPACE THEN trim(Tail(s))
    ELSE IF s[Len(s)] = SPACE THEN trim(SubSeq(s, 1, Len(s) - 1))
    ELSE s

RECURSIVE Flatten(_)
Flatten(ss) == IF ss = <<>> THEN <<>> ELSE Head(ss) \o Flatten(Tail(ss))

(* All sequences over S of length at most n. *)
SeqUpTo(S, n) == UNION {[1..k -> S] : k \in 0..n}

(* ---------------------------------------------------------------------- *)
(* Link endpoints: a string id, or (after d3.forceLink) the node object    *)
(* ---------------------------------------------------------------------- *)
IdEnd(s) == [obj |-> FALSE, str |-> s, node |-> 0]
ObjEnd(i) == [obj |-> TRUE, str |-> <<>>, node |-> i]

VARIABLES
    mode,              \* which page script runs: "csv", "merge" or "json"
    pc,                \* "loading": data promise pending; "ready"; "failed"
    topics,            \* rows of topics.csv as d3.csv yields them
    links,             \* rows of links.csv
    urlsData,          \* rows of urls.csv
    graphData,         \* the parsed JSON document of the merge / json scripts
    currentGraphData,  \* Null, or [nodes, links]
    heap,              \* the urls arrays, by reference
    rendered,          \* renderD3MindMap ran to its end: nodes and links are clickable
    panel,             \* what controlsContainer shows: NoPanel or the displayed element
    adds,              \* number of urls pushed so far (bounds the run)
    linkVisibility,    \* link type -> whether links of the type are shown (part_001)
    linkDom,           \* per link line of the svg: its stroke-opacity and pointer-events
    searchTimer,       \* the debounce timers still set, oldest first: the query each will run
    suggestions,       \* the nodes listed in the suggestions container
    controls,          \* the initial controls while controlsContainer holds them: the
                       \* link-type checkboxes and the listeners of checkboxes and save button
    loader,            \* the loading screen and the timers that hide it (part_001)
    sim,               \* the layout simulation, its tick count and the contour requests
    nodeStyleCache,    \* node id -> style, as getNodeStyle has cached it (part_001)
    nodeDom,           \* per node circle of the svg: its r, stroke and stroke-width
    titles,            \* the title elements of video entries a lookup may still write
    fetch,             \* per data file of the page: "pending", "ok" or "failed"
    keys,              \* composite keys computed for the rows of links (key harness)
    lastOp             \* what the last handler did, and what it showed the user

vars == <<mode, pc, topics, links, urlsData, graphData, currentGraphData, heap,
          rendered, panel, adds, titles, fetch, keys, lastOp,
          linkVisibility, linkDom, searchTimer, suggestions, nodeStyleCache, nodeDom,
          controls, loader, sim>>

toggles == <<linkVisibility, linkDom, controls>>
search == <<searchTimer, suggestions>>
styles == <<nodeStyleCache, nodeDom>>
timers == <<loader, sim>>

Null == [nodes |-> <<>>, links |-> <<>>, isNull |-> TRUE]
Graph(nodes, lnks) == [nodes |-> nodes, links |-> lnks, isNull |-> FALSE]

(* an id taken from the title of the node object *)
IdOfTitle(e) == IF e.obj THEN currentGraphData.nodes[e.node].title ELSE e.str

(* typeof x === 'object' ? x.id : x *)
IdOf(e) == IF e.obj THEN currentGraphData.nodes[e.node].id ELSE e.str

(* a key that joins the three fields without a delimiter *)
getLinkIdNoDelimiter(sourceId, targetId, relation) ==
    IdOf(sourceId) \o IdOf(targetId) \o relation

(* `${sId}|${tId}|${relation}` *)
getLinkId(sourceId, targetId, relation) ==
    IdOf(sourceId) \o <<PIPE>> \o IdOf(targetId) \o <<PIPE>> \o relation

(* ---------------------------------------------------------------------- *)
(* The url map: new Map(), keys in insertion order, values heap cells      *)
(* ---------------------------------------------------------------------- *)
EmptyMap == [keys |-> <<>>, cells |-> <<>>]

(* urlMap.get(key): the index of the key's array, Undefined when absent *)
mapGet(m, key) ==
    IF \E i \in 1..Len(m.keys) : m.keys[i] = key
    THEN CHOOSE i \in 1..Len(m.keys) : m.keys[i] = key
    ELSE Undefined

(* a map that keeps each url of an identifier once *)
urlMapAddUnique(m, entry) ==
    LET m1 == IF mapGet(m, entry.Identifier) = Undefined
              THEN [keys |-> Append(m.keys, entry.Identifier),
                    cells |-> Append(m.cells, <<>>)]
              ELSE m
        k == mapGet(m1, entry.Identifier)
    IN  IF \E n \in 1..Len(m1.cells[k]) : m1.cells[k][n] = entry.URL
        THEN m1
        ELSE [m1 EXCEPT !.cells[k] = Append(@, entry.URL)]

(* if (!urlMap.has(id)) urlMap.set(id, []); urlMap.get(id).push(url) *)
urlMapAdd(m, entry) ==
    LET m1 == IF mapGet(m, entry.Identifier) = Undefined
              THEN [keys |-> Append(m.keys, entry.Identifier),
                    cells |-> Append(m.cells, <<>>)]
              ELSE m
        k == mapGet(m1, entry.Identifier)
    IN  [m1 EXCEPT !.cells[k] = Append(@, entry.URL)]

RECURSIVE urlMapFold(_, _)
urlMapFold(m, entries) ==
    IF entries = <<>> THEN m
    ELSE urlMapFold(urlMapAdd(m, Head(entries)), Tail(entries))

(* urlsData.forEach(entry => ...) over a fresh Map *)
buildUrlMap(entries) == urlMapFold(EmptyMap, entries)

(* urlMap.get(key) || [] : the shared array of the key, or a fresh one.   *)
(* Yields the reference and the heap after the evaluation.                *)
getOrFresh(m, h, key) ==
    IF mapGet(m, key) # Undefined
    THEN [ref |-> mapGet(m, key), heap |-> h]
    ELSE [ref |-> Len(h) + 1, heap |-> Append(h, <<>>)]

(* ---------------------------------------------------------------------- *)
(* createD3Graph (src/js/main.js)                                          *)
(* ---------------------------------------------------------------------- *)
RECURSIVE mapTopics(_, _, _, _)
mapTopics(ts, m, h, acc) ==
    IF ts = <<>> THEN [out |-> acc, heap |-> h]
    ELSE LET topic == Head(ts)
             g == getOrFresh(m, h, topic.Index)
         IN  mapTopics(Tail(ts), m, g.heap,
                 Append(acc, [id |-> topic.Index, title |-> topic.Topic,
                              description |-> topic.Description, urls |-> g.ref]))

RECURSIVE mapLinks(_, _, _, _)
mapLinks(ls, m, h, acc) ==
    IF ls = <<>> THEN [out |-> acc, heap |-> h]
    ELSE LET link == Head(ls)
             linkId == getLinkId(IdEnd(link.Source), IdEnd(link.Target), link.Relation)
             g == getOrFresh(m, h, linkId)
         IN  mapLinks(Tail(ls), m, g.heap,
                 Append(acc, [source |-> IdEnd(link.Source), target |-> IdEnd(link.Target),
                              relation |-> link.Relation, type |-> <<"dependency">>,
                              urls |-> g.ref]))

nodeIdSetOf(nodes) == {nodes[i].id : i \in 1..Len(nodes)}

(* parts.slice(0, -1).join('.') *)
parentIdOf(id) ==
    LET parts == split(id, DOT) IN join(SubSeq(parts, 1, Len(parts) - 1), DOT)

(* the relation the JSON documents give their hierarchical links *)
HierRelationSubTopic == <<"sub", " ", "topic">>

HierRelation == <<"parent-child">>

RECURSIVE hierLinks(_, _, _, _, _)
hierLinks(ns, idSet, m, h, acc) ==
    IF ns = <<>> THEN [out |-> acc, heap |-> h]
    ELSE LET node == Head(ns)
             parts == split(node.id, DOT)
             parentId == parentIdOf(node.id)
         IN  IF Len(parts) > 1 /\ parentId \in idSet
             THEN LET linkId == getLinkId(IdEnd(parentId), IdEnd(node.id), HierRelation)
                      g == getOrFresh(m, h, linkId)
                  IN  hierLinks(Tail(ns), idSet, m, g.heap,
                          Append(acc, [source |-> IdEnd(parentId), target |-> IdEnd(node.id),
                                       relation |-> HierRelation,
                                       type |-> <<"hierarchical">>, urls |-> g.ref]))
             ELSE hierLinks(Tail(ns), idSet, m, h, acc)

(* a builder that puts the hierarchical links before the dependency links *)
createD3GraphHierFirst(ts, ls, entries) ==
    LET urlMap == buildUrlMap(entries)
        n == mapTopics(ts, urlMap, urlMap.cells, <<>>)
        d == mapLinks(ls, urlMap, n.heap, <<>>)
        hl == hierLinks(n.out, nodeIdSetOf(n.out), urlMap, d.heap, <<>>)
    IN  [nodes |-> n.out, links |-> hl.out \o d.out, heap |-> hl.heap]

createD3Graph(ts, ls, entries) ==
    LET urlMap == buildUrlMap(entries)
        n == mapTopics(ts, urlMap, urlMap.cells, <<>>)
        d == mapLinks(ls, urlMap, n.heap, <<>>)
        hl == hierLinks(n.out, nodeIdSetOf(n.out), urlMap, d.heap, <<>>)
    IN  [nodes |-> n.out, links |-> d.out \o hl.out, heap |-> hl.heap]

(* topics.filter(t => t.Index && t.Index.trim() !== '') *)
validTopicsOf(ts) == SelectSeq(ts, LAMBDA t : t.Index # <<>> /\ trim(t.Index) # <<>>)

(* links.filter(l => l['Source Index'] && l['Target Index']) *)
validLinksOf(ls) == SelectSeq(ls, LAMBDA l : l.Source # <<>> /\ l.Target # <<>>)


(* ---------------------------------------------------------------------- *)
(* renderD3MindMap: d3.forceLink(graph.links).id(d => d.id) replaces each  *)
(* link's source and target id by the node object of that id (the last     *)
(* node of that id: the lookup is a Map built from the node list) and      *)
(* throws "node not found" at the first id that names no node.             *)
(* ---------------------------------------------------------------------- *)
findNode(nodes, id) ==
    IF \E i \in 1..Len(nodes) : nodes[i].id = id
    THEN CHOOSE i \in 1..Len(nodes) :
             nodes[i].id = id /\ \A j \in (i + 1)..Len(nodes) : nodes[j].id # id
    ELSE 0

RECURSIVE initializeLinks(_, _, _)
initializeLinks(nodes, ls, k) ==
    IF k > Len(ls) THEN [links |-> ls, ok |-> TRUE]
    ELSE LET si == findNode(nodes, ls[k].source.str)
             ti == findNode(nodes, ls[k].target.str)
         IN  IF si = 0 THEN [links |-> ls, ok |-> FALSE]
             ELSE IF ti = 0
                  THEN [links |-> [ls EXCEPT ![k].source = ObjEnd(si)], ok |-> FALSE]
                  ELSE initializeLinks(nodes,
                           [ls EXCEPT ![k].source = ObjEnd(si), ![k].target = ObjEnd(ti)],
                           k + 1)

renderD3MindMap(graph) == initializeLinks(graph.nodes, graph.links, 1)

(* ---------------------------------------------------------------------- *)
(* Node styles                                                             *)
(* ---------------------------------------------------------------------- *)
(* the switch of getNodeStyle on nodeId.toString().split('.').length *)
nodeStyle(nodeId) ==
    LET level == Len(split(nodeId, DOT))
    IN  IF level = 1 THEN [radius |-> 20, stroke |-> "black", strokeWidth |-> 2]
        ELSE IF level = 2 THEN [radius |-> 15, stroke |-> "none", strokeWidth |-> 0]
        ELSE [radius |-> 10, stroke |-> "none", strokeWidth |-> 0]

(* const nodeStyleCache = new Map() *)
EmptyCache == <<>>

(* getNodeStyle(nodeId) of part_001: the style, and the cache it leaves *)
getNodeStyle(cache, nodeId) ==
    IF nodeId \in DOMAIN cache
    THEN [style |-> cache[nodeId], cache |-> cache]
    ELSE [style |-> nodeStyle(nodeId), cache |-> (nodeId :> nodeStyle(nodeId)) @@ cache]

(* the calls of getNodeStyle the render makes, node by node *)
RECURSIVE cacheAfter(_, _)
cacheAfter(nodes, cache) ==
    IF nodes = <<>> THEN cache
    ELSE cacheAfter(Tail(nodes), getNodeStyle(cache, Head(nodes).id).cache)

(* graph.high_level_topics || [] *)
highLevelTopicsOf(doc) ==
    IF "high_level_topics" \in DOMAIN doc THEN doc.high_level_topics ELSE <<>>

(* the radius of the circle of a high level topic *)
HighLevelRadius == 50

(* node.append("circle").attr("r", ...).attr("stroke", ...).attr("stroke-width", ...) *)
(* of part_001                                                                       *)
drawNodesCached(nodes, highLevelTopics, cache) ==
    [i \in 1..Len(nodes) |->
        LET d == nodes[i]
            isHighLevel == \E h \in 1..Len(highLevelTopics) : highLevelTopics[h].id = d.id
            style == getNodeStyle(cache, d.id).style
        IN  [r |-> IF isHighLevel THEN HighLevelRadius ELSE style.radius,
             stroke |-> style.stroke, strokeWidth |-> style.strokeWidth]]

(* the same of the csv and merge scripts, whose getNodeStyle has no cache *)
drawNodes(nodes) ==
    [i \in 1..Len(nodes) |->
        [r |-> nodeStyle(nodes[i].id).radius, stroke |-> nodeStyle(nodes[i].id).stroke,
         strokeWidth |-> nodeStyle(nodes[i].id).strokeWidth]]

(* ---------------------------------------------------------------------- *)
(* Input files                                                             *)
(* ---------------------------------------------------------------------- *)
Topic(index, title) == [Index |-> index, Topic |-> title, Description |-> <<"text">>]
Relation(s, t, r) == [Source |-> s, Target |-> t, Relation |-> r]
UrlRow(id, url) == [Identifier |-> id, URL |-> url]

Id1 == <<"1">>
Id11 == <<"1", ".", "1">>
Id112 == <<"1", ".", "1", ".", "2">>
Id21 == <<"2", ".", "1">>
Id99 == <<"9", ".", "9">>
DependsOn == <<"depends", " ", "on">>
Extends == <<"extends">>
UrlA == <<"https://x.test/", "a">>
UrlB == <<"https://y.test/", "b">>
UrlV == <<"https://x.test/", "watch?v=", "abcdefghijk">>

TopicRows ==
    { Topic(Id1, <<"Root">>), Topic(Id11, <<"Child">>), Topic(Id112, <<"Leaf">>),
      Topic(Id21, <<"Orphan">>), Topic(<<" ">>, <<"Blank">>) }

LinkRows ==
    { Relation(Id1, Id11, DependsOn), Relation(Id99, Id1, DependsOn),
      Relation(<<>>, Id1, Extends) }

UrlRows ==
    { UrlRow(Id1, UrlA), UrlRow(Id1, UrlB),
      UrlRow(Id1 \o <<PIPE>> \o Id11 \o <<PIPE>> \o DependsOn, UrlA),
      UrlRow(Id1 \o <<PIPE>> \o Id11 \o <<PIPE>> \o HierRelation, UrlB) }

NoDoc == [nodes |-> <<>>, links |-> <<>>]
NoPanel == [type |-> "None", idx |-> 0]
Op(op, arg, alert, out) == [op |-> op, arg |-> arg, alert |-> alert, out |-> out]

(* the files each script fetches: Promise.all([d3.csv, d3.csv, d3.csv]),    *)
(* Promise.all([d3.json, d3.csv]), d3.json                                 *)
FilesOf(m) ==
    IF m = "csv" THEN {"topics", "links", "urls"}
    ELSE IF m = "merge" THEN {"graph", "urls"}
    ELSE {"graph"}

Pending == [f \in FilesOf(mode) |-> "pending"]
AllOk == [f \in FilesOf(mode) |-> "ok"]

(* the fetch that settles now is the last one Promise.all waits for *)
LastFetch ==
    \E f \in FilesOf(mode) :
        fetch[f] = "pending" /\ \A g \in FilesOf(mode) \ {f} : fetch[g] = "ok"

(* a then handler that runs once every fetch has settled, failed or not *)
LoadCsvAllSettled ==
    /\ mode = "csv"
    /\ \E f \in FilesOf(mode) :
           /\ fetch[f] = "pending" /\ \A g \in FilesOf(mode) \ {f} : fetch[g] # "pending"
           /\ fetch' = [fetch EXCEPT ![f] = "ok"]
    /\ LET validTopics == validTopicsOf(topics)
           validLinks == validLinksOf(links)
           g == createD3Graph(validTopics, validLinks, urlsData)
           r == renderD3MindMap(g)
       IN  /\ currentGraphData' = Graph(g.nodes, r.links)
           /\ heap' = g.heap
           /\ rendered' = r.ok
           /\ nodeDom' = IF r.ok THEN drawNodes(g.nodes) ELSE <<>>
    /\ pc' = "ready"
    /\ lastOp' = Op("load", <<>>, "", <<>>)
    /\ UNCHANGED <<timers, nodeStyleCache, toggles, search, titles, keys, mode, topics, links, urlsData, graphData, panel, adds>>

(* Promise.all(...).then(([topics, links, urls]) => { ... }) of the csv    *)
(* script.  currentGraphData is assigned before renderD3MindMap runs; when *)
(* the render throws, the catch handler only logs.                         *)
LoadCsv ==
    /\ mode = "csv"
    /\ pc = "loading"
    /\ LastFetch
    /\ fetch' = AllOk
    /\ LET validTopics == validTopicsOf(topics)
           validLinks == validLinksOf(links)
           g == createD3Graph(validTopics, validLinks, urlsData)
           r == renderD3MindMap(g)
       IN  /\ currentGraphData' = Graph(g.nodes, r.links)
           /\ heap' = g.heap
           /\ rendered' = r.ok
           /\ nodeDom' = IF r.ok THEN drawNodes(g.nodes) ELSE <<>>
    /\ pc' = "ready"
    /\ lastOp' = Op("load", <<>>, "", <<>>)
    /\ UNCHANGED <<timers, nodeStyleCache, toggles, search, titles, keys, mode, topics, links, urlsData, graphData, panel, adds>>

(* .catch(error => console.error(...)): one of the fetches failed *)
LoadFail ==
    /\ pc = "loading"
    /\ \E f \in FilesOf(mode) :
           /\ fetch[f] = "pending"
           /\ fetch' = [fetch EXCEPT ![f] = "failed"]
    /\ pc' = "failed"
    /\ lastOp' = Op("loadfail", <<>>, "", <<>>)
    /\ UNCHANGED <<timers, styles, toggles, search, titles, keys, mode, topics, links, urlsData, graphData, currentGraphData, heap,
                   rendered, panel, adds>>

(* a fetch settles without effect: Promise.all still waits for another     *)
(* file, or it has already been rejected                                   *)
FetchSettle(f, res) ==
    /\ f \in FilesOf(mode)
    /\ fetch[f] = "pending"
    /\ IF res = "ok"
       THEN pc # "loading" \/ \E g \in FilesOf(mode) \ {f} : fetch[g] # "ok"
       ELSE pc # "loading"
    /\ fetch' = [fetch EXCEPT ![f] = res]
    /\ lastOp' = Op("fetch", <<>>, "", <<>>)
    /\ UNCHANGED <<timers, styles, toggles, search, titles, keys, mode, pc, topics, links, urlsData, graphData, currentGraphData, heap,
                   rendered, panel, adds>>



(* ---------------------------------------------------------------------- *)
(* saveUrlsToCsv: the two generations of the exporter                      *)
(* ---------------------------------------------------------------------- *)
Header == <<"Identifier", COMMA, "URL", NEWLINE>>

(* element.urls, read through the reference; undefined reads as no urls *)
UrlsAt(h, ref) == IF ref = Undefined THEN <<>> ELSE h[ref]

(* str.replace(/"/g, '""') *)
RECURSIVE doubleQuotes(_)
doubleQuotes(str) ==
    IF str = <<>> THEN <<>>
    ELSE IF Head(str) = QUOTE THEN <<QUOTE, QUOTE>> \o doubleQuotes(Tail(str))
    ELSE <<Head(str)>> \o doubleQuotes(Tail(str))

(* const escapeCsv = (str) => `"${(str || '').replace(/"/g, '""')}"` *)
escapeCsv(str) == <<QUOTE>> \o doubleQuotes(str) \o <<QUOTE>>

(* `${id},"${url}"\n`  (src/js/main.js) *)
csvRow(id, url) == id \o <<COMMA, QUOTE>> \o url \o <<QUOTE, NEWLINE>>

(* `${id},${escapeCsv(url)}\n`  (src/unnamed/part_000, part_001) *)
csvRowEscaped(id, url) == id \o <<COMMA>> \o escapeCsv(url) \o <<NEWLINE>>

(* urls.forEach(url => { csvContent += row }) *)
RECURSIVE appendRows(_, _, _, _)
appendRows(csvContent, id, urls, escaped) ==
    IF urls = <<>> THEN csvContent
    ELSE appendRows(csvContent \o (IF escaped THEN csvRowEscaped(id, Head(urls))
                                            ELSE csvRow(id, Head(urls))),
                    id, Tail(urls), escaped)

(* graph.nodes.forEach(node => { if (node.urls && node.urls.length > 0) ... }) *)
RECURSIVE exportNodes(_, _, _, _)
exportNodes(csvContent, ns, h, escaped) ==
    IF ns = <<>> THEN csvContent
    ELSE LET node == Head(ns)
         IN  exportNodes(
                 IF node.urls # Undefined /\ Len(h[node.urls]) > 0
                 THEN appendRows(csvContent, node.id, h[node.urls], escaped)
                 ELSE csvContent,
                 Tail(ns), h, escaped)

(* graph.links.forEach(link => { if (link.urls && link.urls.length > 0) ... }):  *)
(* the csv script keys a link by link.relation, the later scripts by link.type   *)
RECURSIVE exportLinks(_, _, _, _)
exportLinks(csvContent, ls, h, escaped) ==
    IF ls = <<>> THEN csvContent
    ELSE LET link == Head(ls)
             linkId == getLinkId(link.source, link.target,
                                 IF escaped THEN link.type ELSE link.relation)
         IN  exportLinks(
                 IF link.urls # Undefined /\ Len(h[link.urls]) > 0
                 THEN appendRows(csvContent, linkId, h[link.urls], escaped)
                 ELSE csvContent,
                 Tail(ls), h, escaped)

(* an exporter that writes the link rows before the node rows *)
saveUrlsToCsvLinksFirst(graph, h) ==
    exportNodes(exportLinks(Header, graph.links, h, FALSE), graph.nodes, h, FALSE)

(* saveUrlsToCsv of src/js/main.js: the text handed to the download *)
saveUrlsToCsv(graph, h) ==
    exportLinks(exportNodes(Header, graph.nodes, h, FALSE), graph.links, h, FALSE)

(* saveUrlsToCsv of src/unnamed/part_000 and part_001 *)
saveUrlsToCsvEscaped(graph, h) ==
    exportLinks(exportNodes(Header, graph.nodes, h, TRUE), graph.links, h, TRUE)

(* ---------------------------------------------------------------------- *)
(* d3.csv: d3-dsv's parseRows / parse, as it reads urls.csv                *)
(* ---------------------------------------------------------------------- *)
(* text.charCodeAt(i), 0-based; NaN outside the text *)
charAt(T, i) == IF i >= 0 /\ i < Len(T) THEN T[i + 1] ELSE "NaN"

(* text.slice(a, b), 0-based, b exclusive *)
slice(T, a, b) == SubSeq(T, a + 1, IF b < Len(T) THEN b ELSE Len(T))

(* .replace(/""/g, "\"") *)
RECURSIVE unescapeQuotes(_)
unescapeQuotes(str) ==
    IF str = <<>> THEN <<>>
    ELSE IF Len(str) >= 2 /\ str[1] = QUOTE /\ str[2] = QUOTE
         THEN <<QUOTE>> \o unescapeQuotes(SubSeq(str, 3, Len(str)))
         ELSE <<Head(str)>> \o unescapeQuotes(Tail(str))

(* while (I++ < N && text.charCodeAt(I) !== QUOTE || text.charCodeAt(++I) === QUOTE); *)
(* the value of I when the loop ends                                                  *)
RECURSIVE quoteScan(_, _, _)
quoteScan(T, N, I) ==
    IF I < N /\ charAt(T, I + 1) # QUOTE THEN quoteScan(T, N, I + 1)
    ELSE IF charAt(T, I + 2) = QUOTE THEN quoteScan(T, N, I + 2)
    ELSE I + 2

Tok(kind, val, I, eol, eof) == [kind |-> kind, val |-> val, I |-> I, eol |-> eol, eof |-> eof]

(* function token() of parseRows *)
token(T, N, I, eol, eof) ==
    IF eof THEN Tok("EOF", <<>>, I, eol, eof)
    ELSE IF eol THEN Tok("EOL", <<>>, I, FALSE, eof)
    ELSE IF charAt(T, I) = QUOTE
    THEN LET i == quoteScan(T, N, I)
             val == unescapeQuotes(slice(T, I + 1, i - 1))
         IN  IF i >= N THEN Tok("TOK", val, i, FALSE, TRUE)
             ELSE Tok("TOK", val, i + 1, charAt(T, i) = NEWLINE, FALSE)
    ELSE IF \E i \in I..(N - 1) : charAt(T, i) \in {NEWLINE, COMMA}
    THEN LET i == CHOOSE i \in I..(N - 1) :
                      /\ charAt(T, i) \in {NEWLINE, COMMA}
                      /\ \A j \in I..(i - 1) : charAt(T, j) \notin {NEWLINE, COMMA}
         IN  Tok("TOK", slice(T, I, i), i + 1, charAt(T, i) = NEWLINE, FALSE)
    ELSE Tok("TOK", slice(T, I, N), N, FALSE, TRUE)

(* while ((t = token()) !== EOF) { row = []; while (t !== EOL && t !== EOF) ... } *)
RECURSIVE rowsLoop(_, _, _, _, _, _, _, _)
rowsLoop(T, N, I, eol, eof, row, inRow, rows) ==
    LET t == token(T, N, I, eol, eof)
    IN  IF ~inRow
        THEN IF t.kind = "EOF" THEN rows
             ELSE IF t.kind = "EOL"
                  THEN rowsLoop(T, N, t.I, t.eol, t.eof, <<>>, FALSE, Append(rows, <<>>))
                  ELSE rowsLoop(T, N, t.I, t.eol, t.eof, <<t.val>>, TRUE, rows)
        ELSE IF t.kind \in {"EOF", "EOL"}
             THEN rowsLoop(T, N, t.I, t.eol, t.eof, <<>>, FALSE, Append(rows, row))
             ELSE rowsLoop(T, N, t.I, t.eol, t.eof, Append(row, t.val), TRUE, rows)

(* parseRows(text): the trailing newline is stripped first *)
parseRows(T) ==
    LET N == IF Len(T) > 0 /\ T[Len(T)] = NEWLINE THEN Len(T) - 1 ELSE Len(T)
    IN  rowsLoop(T, N, 0, FALSE, Len(T) <= 0, <<>>, FALSE, <<>>)

(* objectConverter: d[i] || "" under the column's name *)
fieldOf(columns, row, name) ==
    IF \E i \in 1..Len(columns) : columns[i] = name
    THEN LET i == CHOOSE i \in 1..Len(columns) :
                      columns[i] = name /\ \A j \in (i + 1)..Len(columns) : columns[j] # name
         IN  IF i <= Len(row) THEN row[i] ELSE <<>>
    ELSE <<>>

(* d3.csvParse(text) for a file with the columns Identifier and URL *)
csvParse(T) ==
    LET rows == parseRows(T)
    IN  IF rows = <<>> THEN <<>>
        ELSE [k \in 1..(Len(rows) - 1) |->
                 [Identifier |-> fieldOf(rows[1], rows[k + 1], <<"Identifier">>),
                  URL |-> fieldOf(rows[1], rows[k + 1], <<"URL">>)]]

(* ---------------------------------------------------------------------- *)
(* The JSON document of the merge and json scripts                         *)
(* ---------------------------------------------------------------------- *)
SubTopic == <<"sub", " ", "topic">>
UndefinedText == <<"undefined">>

(* a node / link of the document; hasUrls: the object has a urls property *)
DocNode(id, name, hasUrls, urls) ==
    [id |-> id, title |-> name, description |-> <<"text">>, hasUrls |-> hasUrls, urls |-> urls]
DocLink(s, t, type, hasUrls, urls) ==
    [source |-> s, target |-> t, type |-> type, hasUrls |-> hasUrls, urls |-> urls]

(* JSON.parse: every urls array of the document becomes an array of its own *)
RECURSIVE parseDocNodes(_, _, _)
parseDocNodes(ns, h, acc) ==
    IF ns = <<>> THEN [out |-> acc, heap |-> h]
    ELSE LET n == Head(ns)
         IN  parseDocNodes(Tail(ns),
                 IF n.hasUrls THEN Append(h, n.urls) ELSE h,
                 Append(acc, [id |-> n.id, title |-> n.title, description |-> n.description,
                              urls |-> IF n.hasUrls THEN Len(h) + 1 ELSE Undefined]))

RECURSIVE parseDocLinks(_, _, _)
parseDocLinks(ls, h, acc) ==
    IF ls = <<>> THEN [out |-> acc, heap |-> h]
    ELSE LET l == Head(ls)
         IN  parseDocLinks(Tail(ls),
                 IF l.hasUrls THEN Append(h, l.urls) ELSE h,
                 Append(acc, [source |-> IdEnd(l.source), target |-> IdEnd(l.target),
                              relation |-> UndefinedText, type |-> l.type,
                              urls |-> IF l.hasUrls THEN Len(h) + 1 ELSE Undefined]))

parseDoc(doc, h) ==
    LET n == parseDocNodes(doc.nodes, h, <<>>)
        l == parseDocLinks(doc.links, n.heap, <<>>)
    IN  [nodes |-> n.out, links |-> l.out, heap |-> l.heap]

(* ---------------------------------------------------------------------- *)
(* mergeUrlsIntoGraph (src/unnamed/part_000)                               *)
(* ---------------------------------------------------------------------- *)
(* graphData.nodes.forEach(node => { node.urls = urlMap.get(node.id) || []; }) *)
RECURSIVE mergeNodes(_, _, _, _)
mergeNodes(ns, m, h, acc) ==
    IF ns = <<>> THEN [out |-> acc, heap |-> h]
    ELSE LET g == getOrFresh(m, h, Head(ns).id)
         IN  mergeNodes(Tail(ns), m, g.heap, Append(acc, [Head(ns) EXCEPT !.urls = g.ref]))

(* graphData.links.forEach(link => { link.urls = urlMap.get(linkId) || []; }) *)
RECURSIVE mergeLinks(_, _, _, _)
mergeLinks(ls, m, h, acc) ==
    IF ls = <<>> THEN [out |-> acc, heap |-> h]
    ELSE LET link == Head(ls)
             g == getOrFresh(m, h, getLinkId(link.source, link.target, link.type))
         IN  mergeLinks(Tail(ls), m, g.heap, Append(acc, [link EXCEPT !.urls = g.ref]))

(* a merge that returns validLinks in place of graphData.links *)
mergeUrlsIntoGraphValidLinks(doc, entries) ==
    LET urlMap == buildUrlMap(entries)
        parsed == parseDoc(doc, urlMap.cells)
        nodeIdSet == {parsed.nodes[i].id : i \in 1..Len(parsed.nodes)}
        validLinks == SelectSeq(parsed.links,
                                LAMBDA link : link.source.str \in nodeIdSet
                                              /\ link.target.str \in nodeIdSet)
        n == mergeNodes(parsed.nodes, urlMap, parsed.heap, <<>>)
        l == mergeLinks(validLinks, urlMap, n.heap, <<>>)
    IN  [nodes |-> n.out, links |-> l.out, heap |-> l.heap]

(* validLinks is computed and never used: the function returns graphData whole. *)
(* The url map's arrays are cells 1..K of the heap it yields.                    *)
mergeUrlsIntoGraph(doc, entries) ==
    LET urlMap == buildUrlMap(entries)
        parsed == parseDoc(doc, urlMap.cells)
        n == mergeNodes(parsed.nodes, urlMap, parsed.heap, <<>>)
        l == mergeLinks(parsed.links, urlMap, n.heap, <<>>)
    IN  [nodes |-> n.out, links |-> l.out, heap |-> l.heap]

(* ---------------------------------------------------------------------- *)
(* Link visibility (part_001)                                              *)
(* ---------------------------------------------------------------------- *)
ExtendsType == <<"extends">>
SemanticallySimilar == <<"semantically_similar">>
Other == <<"other">>
VisibilityKeys == {SubTopic, DependsOn, ExtendsType, SemanticallySimilar, Other}

(* let linkVisibility = { 'sub topic': true, ... } *)
AllVisible == [t \in VisibilityKeys |-> TRUE]

(* linkVisibility[d.type] !== undefined ? linkVisibility[d.type] : linkVisibility['other'] *)
visibilityOf(lv, type) == IF type \in VisibilityKeys THEN lv[type] ELSE lv[Other]

(* (linkHierarchy[d.type] || linkHierarchy['default']).opacity, in tenths *)
configOpacity(type) ==
    IF type = SubTopic THEN 10
    ELSE IF type = DependsOn THEN 7
    ELSE IF type = ExtendsType THEN 5
    ELSE IF type = SemanticallySimilar THEN 3
    ELSE 6

(* a style that leaves hidden lines clickable *)
linkStyleClickable(lv, type) ==
    [opacity |-> IF visibilityOf(lv, type) THEN configOpacity(type) ELSE 0,
     pointer |-> "auto"]

(* .style("stroke-opacity", ...) and .style("pointer-events", ...) of one line *)
linkStyle(lv, type) ==
    [opacity |-> IF visibilityOf(lv, type) THEN configOpacity(type) ELSE 0,
     pointer |-> IF visibilityOf(lv, type) THEN "auto" ELSE "none"]

(* the styles of all lines of the svg *)
styleLinks(lv, ls) == [k \in 1..Len(ls) |-> linkStyle(lv, ls[k].type)]

(* the link types that have a checkbox: toggle-sub-topic, toggle-depends-on, *)
(* toggle-extends, toggle-semantic                                           *)
ToggleTypes == {SubTopic, DependsOn, ExtendsType, SemanticallySimilar}

(* controlsContainer after innerHTML = '' : no checkbox, no save button *)
NoControls ==
    [checked |-> [t \in ToggleTypes |-> FALSE],
     toggleListeners |-> [t \in ToggleTypes |-> 0],
     saveListeners |-> 0]

(* the controls of the page as the browser built them from the html, with   *)
(* the save listener the script adds at DOMContentLoaded                   *)
InitialControls(htmlChecked) ==
    [checked |-> [t \in ToggleTypes |-> htmlChecked],
     toggleListeners |-> [t \in ToggleTypes |-> 0],
     saveListeners |-> 1]

(* initializeLinkToggles(): each checkbox found is set to the flag of its   *)
(* type and gets one more change listener                                  *)
initializeLinkToggles(c, lv, present) ==
    IF present
    THEN [c EXCEPT !.checked = [t \in ToggleTypes |-> lv[t]],
                   !.toggleListeners = [t \in ToggleTypes |-> c.toggleListeners[t] + 1]]
    ELSE c

(* updateCheckboxStates() *)
updateCheckboxStates(c, lv) == [c EXCEPT !.checked = [t \in ToggleTypes |-> lv[t]]]

(* a reset that adds the save listener twice *)
resetControlsTwice(m, lv) ==
    [NoControls EXCEPT !.saveListeners = 2,
                       !.checked = [t \in ToggleTypes |-> lv[t]],
                       !.toggleListeners = [t \in ToggleTypes |-> IF m = "json" THEN 1 ELSE 0]]

(* resetControlsPanel(): fresh elements, one save listener; the json script *)
(* then calls initializeLinkToggles and updateCheckboxStates.  In the other *)
(* scripts nothing reads the checkboxes.                                    *)
resetControls(m, lv) ==
    LET fresh == [NoControls EXCEPT !.saveListeners = 1]
    IN  IF m = "json"
        THEN updateCheckboxStates(initializeLinkToggles(fresh, lv, TRUE), lv)
        ELSE fresh

(* linkVisibility after n calls of toggleLinkType(linkType) *)
RECURSIVE toggleLinkType(_, _, _)
toggleLinkType(lv, linkType, n) ==
    IF n = 0 THEN lv
    ELSE toggleLinkType([lv EXCEPT ![linkType] = ~@], linkType, n - 1)

(* ---------------------------------------------------------------------- *)
(* Loading screen, layout simulation and contour requests (part_001)       *)
(* ---------------------------------------------------------------------- *)
(* the page at DOMContentLoaded: the screen is shown, loadingTimeout is set *)
InitialLoader ==
    [hiddenClass |-> FALSE, display |-> "block",
     timeout |-> "armed",       \* "armed", "fired" (its callback ran) or "cleared"
     fade |-> 0,                \* pending 300 ms timers of hideLoadingScreen
     remove |-> 0]              \* pending 500 ms timers of hideLoadingScreen

(* hideLoadingScreen(): setTimeout(..., 300) *)
hideLoadingScreen(l) == [l EXCEPT !.fade = @ + 1]

(* a clearLoadingTimeout that leaves the timeout set *)
clearLoadingTimeoutKeep(l) == l

(* clearLoadingTimeout(): clearTimeout stops an armed timeout and has no    *)
(* effect on one that has fired                                            *)
clearLoadingTimeout(l) ==
    IF l.timeout = "armed" THEN [l EXCEPT !.timeout = "cleared"] ELSE l

(* no simulation yet: renderD3MindMap has not created it *)
NoSim ==
    [state |-> "none",          \* "none", "running" or "ended"
     tickCount |-> 0,
     rafId |-> 0,               \* the id requestAnimationFrame returned last (0: null)
     rafs |-> {},               \* ids of the animation frames still pending
     timerId |-> 0,             \* contourRenderTimeout (0: undefined)
     contourTimers |-> {},      \* ids of the debounce timers still pending
     ids |-> 0,                 \* ids handed out so far
     requested |-> FALSE,       \* the last tick requested renderContours
     restarts |-> 0]            \* drags that restarted the simulation

(* isSimulationRunning = true at the end of renderD3MindMap *)
startSimulation(x) == [x EXCEPT !.state = "running"]

(* the first tick that may request the contours, and the spacing of requests *)
ContourStartTick == 30
ContourEvery == 10

(* a request that does not cancel the pending animation frame *)
requestContoursNoCancel(x) ==
    [x EXCEPT !.rafs = @ \cup {x.ids + 1},
              !.rafId = x.ids + 1, !.ids = @ + 1, !.requested = TRUE]

(* if (rafId) cancelAnimationFrame(rafId); rafId = requestAnimationFrame(...) *)
requestContours(x) ==
    [x EXCEPT !.rafs = (@ \ {x.rafId}) \cup {x.ids + 1},
              !.rafId = x.ids + 1, !.ids = @ + 1, !.requested = TRUE]

(* renderContours(): clearTimeout(contourRenderTimeout); setTimeout(..., 50) *)
renderContours(x) ==
    [x EXCEPT !.contourTimers = (@ \ {x.timerId}) \cup {x.ids + 1},
              !.timerId = x.ids + 1, !.ids = @ + 1]

(* simulation.on("tick", ...) *)
onTick(x) ==
    LET t == [x EXCEPT !.tickCount = @ + 1, !.requested = FALSE]
    IN  IF t.tickCount < ContourStartTick THEN t
        ELSE IF t.tickCount % ContourEvery = 0 THEN requestContours(t)
        ELSE t

(* ---------------------------------------------------------------------- *)
(* Load handlers of the merge and json scripts                             *)
(* ---------------------------------------------------------------------- *)
(* .then(([graphData, urls]) => { currentGraphData = mergeUrlsIntoGraph(...); render }) *)
LoadMerge ==
    /\ mode = "merge"
    /\ pc = "loading"
    /\ LastFetch
    /\ fetch' = AllOk
    /\ LET g == mergeUrlsIntoGraph(graphData, urlsData)
           r == renderD3MindMap(g)
       IN  /\ currentGraphData' = Graph(g.nodes, r.links)
           /\ heap' = g.heap
           /\ rendered' = r.ok
           /\ nodeDom' = IF r.ok THEN drawNodes(g.nodes) ELSE <<>>
    /\ pc' = "ready"
    /\ lastOp' = Op("load", <<>>, "", <<>>)
    /\ UNCHANGED <<timers, nodeStyleCache, toggles, search, titles, keys, mode, topics, links, urlsData, graphData, panel, adds>>

(* d3.json(...).then(graphData => { currentGraphData = graphData; render }) *)
LoadJson ==
    /\ mode = "json"
    /\ pc = "loading"
    /\ LastFetch
    /\ fetch' = AllOk
    /\ LET g == parseDoc(graphData, <<>>)
           r == renderD3MindMap(g)
       IN  /\ currentGraphData' = Graph(g.nodes, r.links)
           /\ heap' = g.heap
           /\ rendered' = r.ok
           /\ sim' = IF r.ok THEN startSimulation(sim) ELSE sim
           /\ nodeStyleCache' = IF r.ok THEN cacheAfter(g.nodes, nodeStyleCache)
                                ELSE nodeStyleCache
           /\ nodeDom' = IF r.ok
                         THEN drawNodesCached(g.nodes, highLevelTopicsOf(graphData),
                                              nodeStyleCache')
                         ELSE <<>>
           /\ linkDom' = IF r.ok THEN styleLinks(linkVisibility, r.links) ELSE <<>>
           /\ controls' = IF r.ok
                          THEN initializeLinkToggles(controls, linkVisibility,
                                                     panel.type = "None")
                          ELSE controls
    /\ pc' = "ready"
    /\ lastOp' = Op("load", <<>>, "", <<>>)
    /\ UNCHANGED <<loader, linkVisibility, search, titles, keys, mode, topics, links, urlsData, graphData, panel, adds>>

(* ---------------------------------------------------------------------- *)
(* The URL panel (showUrlManager) and the save button                      *)
(* ---------------------------------------------------------------------- *)
SchemePrefixes == {"https://x.test/", "https://y.test/"}

(* new URL(value) returns: value is an absolute URL *)
newURLok(value) == Len(value) > 0 /\ value[1] \in SchemePrefixes

AlertInvalid == "Please enter a valid URL."
AlertNoData == "No data available to save."

(* the element the panel displays *)
ElementOf(g, p) == IF p.type = "Node" THEN g.nodes[p.idx] ELSE g.links[p.idx]

(* getYoutubeVideoId(url): the text after the last marker, when it is 11   *)
(* characters long; NoVideo otherwise                                      *)
YoutubeMarkers == {"youtu.be/", "v/", "embed/", "watch?v=", "&v="}
VideoIdLength == 11
CharCount(tok) == IF tok = "abcdefghijk" THEN VideoIdLength ELSE 1
NoVideo == "null"
getYoutubeVideoId(url) ==
    LET ms == {p \in 1..(Len(url) - 1) : url[p] \in YoutubeMarkers}
    IN  IF ms = {} THEN NoVideo
        ELSE LET p == CHOOSE q \in ms : \A r \in ms : r <= q
             IN  IF CharCount(url[p + 1]) = VideoIdLength THEN url[p + 1] ELSE NoVideo

(* the scripts whose panel asks noembed.com for the title of a video *)
HasLookups == mode \in {"merge", "json"}

(* titleDiv of a video entry: created with 'Loading title...', opacity 0,  *)
(* and a lookup pending on it                                              *)
NewTitle(entry) ==
    [attached |-> TRUE, entry |-> entry, text |-> "Loading title...", opacity |-> "0",
     display |-> "", pending |-> TRUE]

(* controlsContainer.innerHTML = ...: the elements of the panel leave the   *)
(* document; those no lookup refers to are gone                            *)
RECURSIVE detach(_)
detach(ts) ==
    IF ts = <<>> THEN <<>>
    ELSE IF Head(ts).pending
         THEN <<[Head(ts) EXCEPT !.attached = FALSE]>> \o detach(Tail(ts))
         ELSE detach(Tail(ts))

(* element.urls.forEach(url => { ... fetchYoutubeMetadata(url) ... }) *)
RECURSIVE entryTitles(_, _)
entryTitles(urls, j) ==
    IF j > Len(urls) THEN <<>>
    ELSE IF getYoutubeVideoId(urls[j]) # NoVideo
         THEN <<NewTitle(j)>> \o entryTitles(urls, j + 1)
         ELSE entryTitles(urls, j + 1)

(* the title elements after showUrlManager(element, type) *)
showTitles(ts, urls) ==
    IF HasLookups THEN detach(ts) \o entryTitles(urls, 1) ELSE ts

PendingCount(ts) == Cardinality({t \in 1..Len(ts) : ts[t].pending})

(* click on a node of the rendered graph: showUrlManager(d, 'Node') *)
ShowNode(i) ==
    /\ pc = "ready" /\ rendered
    /\ i \in 1..Len(currentGraphData.nodes)
    /\ panel' = [type |-> "Node", idx |-> i]
    /\ titles' = showTitles(titles, UrlsAt(heap, currentGraphData.nodes[i].urls))
    /\ PendingCount(titles') <= MaxLookups
    /\ controls' = NoControls
    /\ lastOp' = Op("show", <<>>, "", <<>>)
    /\ UNCHANGED <<timers, styles, linkVisibility, linkDom, search, fetch, keys, mode, pc, topics, links, urlsData, graphData, currentGraphData, heap,
                   rendered, adds>>

(* click on a link of the rendered graph: showUrlManager(d, 'Link') *)
ShowLink(k) ==
    /\ pc = "ready" /\ rendered
    /\ k \in 1..Len(currentGraphData.links)
    /\ mode = "json" => linkDom[k].pointer = "auto"
    /\ panel' = [type |-> "Link", idx |-> k]
    /\ titles' = showTitles(titles, UrlsAt(heap, currentGraphData.links[k].urls))
    /\ PendingCount(titles') <= MaxLookups
    /\ controls' = NoControls
    /\ lastOp' = Op("show", <<>>, "", <<>>)
    /\ UNCHANGED <<timers, styles, linkVisibility, linkDom, search, fetch, keys, mode, pc, topics, links, urlsData, graphData, currentGraphData, heap,
                   rendered, adds>>

(* a push that skips a url the list already holds *)
pushUrlUnique(g, h, p, value) ==
    LET ref == ElementOf(g, p).urls
    IN  IF ref = Undefined
        THEN [graph |-> IF p.type = "Node"
                        THEN [g EXCEPT !.nodes[p.idx].urls = Len(h) + 1]
                        ELSE [g EXCEPT !.links[p.idx].urls = Len(h) + 1],
              heap |-> Append(h, <<value>>)]
        ELSE IF \E n \in 1..Len(h[ref]) : h[ref][n] = value
        THEN [graph |-> g, heap |-> h]
        ELSE [graph |-> g, heap |-> [h EXCEPT ![ref] = Append(@, value)]]

(* a push at the front of the list *)
pushUrlFront(g, h, p, value) ==
    LET ref == ElementOf(g, p).urls
    IN  IF ref = Undefined
        THEN [graph |-> IF p.type = "Node"
                        THEN [g EXCEPT !.nodes[p.idx].urls = Len(h) + 1]
                        ELSE [g EXCEPT !.links[p.idx].urls = Len(h) + 1],
              heap |-> Append(h, <<value>>)]
        ELSE [graph |-> g, heap |-> [h EXCEPT ![ref] = <<value>> \o @]]

(* element.urls.push(value), after if (!element.urls) element.urls = [] *)
pushUrl(g, h, p, value) ==
    LET ref == ElementOf(g, p).urls
    IN  IF ref = Undefined
        THEN [graph |-> IF p.type = "Node"
                        THEN [g EXCEPT !.nodes[p.idx].urls = Len(h) + 1]
                        ELSE [g EXCEPT !.links[p.idx].urls = Len(h) + 1],
              heap |-> Append(h, <<value>>)]
        ELSE [graph |-> g, heap |-> [h EXCEPT ![ref] = Append(@, value)]]

(* a handler that pushes the value before it validates it *)
AddUrlPushFirst(value) ==
    /\ panel.type # "None"
    /\ IF value = <<>>
       THEN /\ lastOp' = Op("add", value, "", <<>>)
            /\ UNCHANGED <<currentGraphData, heap, adds, titles>>
       ELSE /\ adds < MaxAdds
            /\ LET r == pushUrl(currentGraphData, heap, panel, value)
               IN  /\ currentGraphData' = r.graph
                   /\ heap' = r.heap
                   /\ titles' = IF newURLok(value)
                                THEN showTitles(titles, UrlsAt(r.heap, ElementOf(r.graph, panel).urls))
                                ELSE titles
            /\ PendingCount(titles') <= MaxLookups
            /\ adds' = adds + 1
            /\ lastOp' = Op("add", value, IF newURLok(value) THEN "" ELSE AlertInvalid, <<>>)
    /\ suggestions' = <<>>
    /\ UNCHANGED <<timers, styles, toggles, searchTimer, fetch, keys, mode, pc, topics, links, urlsData, graphData,
                   rendered, panel>>

(* a handler whose catch block shows nothing *)
AddUrlSilent(value) ==
    /\ panel.type # "None"
    /\ IF value # <<>> /\ newURLok(value)
       THEN /\ adds < MaxAdds
            /\ LET r == pushUrl(currentGraphData, heap, panel, value)
               IN  /\ currentGraphData' = r.graph
                   /\ heap' = r.heap
                   /\ titles' = showTitles(titles, UrlsAt(r.heap, ElementOf(r.graph, panel).urls))
            /\ PendingCount(titles') <= MaxLookups
            /\ adds' = adds + 1
            /\ lastOp' = Op("add", value, "", <<>>)
       ELSE /\ lastOp' = Op("add", value, "", <<>>)
            /\ UNCHANGED <<currentGraphData, heap, adds, titles>>
    /\ suggestions' = <<>>
    /\ UNCHANGED <<timers, styles, toggles, searchTimer, fetch, keys, mode, pc, topics, links, urlsData, graphData,
                   rendered, panel>>

(* addUrlButton.onclick with addUrlInput.value = value *)
AddUrl(value) ==
    /\ panel.type # "None"
    /\ IF value = <<>>
       THEN /\ lastOp' = Op("add", value, "", <<>>)
            /\ UNCHANGED <<currentGraphData, heap, adds, titles>>
       ELSE IF newURLok(value)
       THEN /\ adds < MaxAdds
            /\ LET r == pushUrl(currentGraphData, heap, panel, value)
               IN  /\ currentGraphData' = r.graph
                   /\ heap' = r.heap
                   /\ titles' = showTitles(titles, UrlsAt(r.heap, ElementOf(r.graph, panel).urls))
            /\ PendingCount(titles') <= MaxLookups
            /\ adds' = adds + 1
            /\ lastOp' = Op("add", value, "", <<>>)
       ELSE /\ lastOp' = Op("add", value, AlertInvalid, <<>>)
            /\ UNCHANGED <<currentGraphData, heap, adds, titles>>
    /\ suggestions' = <<>>
    /\ UNCHANGED <<timers, styles, toggles, searchTimer, fetch, keys, mode, pc, topics, links, urlsData, graphData,
                   rendered, panel>>

(* fetchYoutubeMetadata(url) settles for title element t: .then with a     *)
(* title, .then without one, or .catch                                     *)
settleTitle(title, outcome) ==
    IF outcome = "title"
    THEN [title EXCEPT !.text = "the title", !.opacity = "1", !.pending = FALSE]
    ELSE IF outcome = "notitle"
    THEN [title EXCEPT !.text = "Title not available", !.pending = FALSE]
    ELSE [title EXCEPT !.display = "none", !.pending = FALSE]

(* a lookup that is issued again when it fails *)
MetadataSettleRetry(t, outcome) ==
    /\ t \in 1..Len(titles)
    /\ titles[t].pending
    /\ titles' = [titles EXCEPT ![t] = IF outcome = "fail"
                                       THEN [@ EXCEPT !.display = "none"]
                                       ELSE settleTitle(@, outcome)]
    /\ lastOp' = Op("metadata", <<>>, "", <<>>)
    /\ UNCHANGED <<timers, styles, toggles, search, fetch, keys, mode, pc, topics, links, urlsData, graphData, currentGraphData,
                   heap, rendered, panel, adds>>

MetadataSettle(t, outcome) ==
    /\ t \in 1..Len(titles)
    /\ titles[t].pending
    /\ titles' = [titles EXCEPT ![t] = settleTitle(@, outcome)]
    /\ lastOp' = Op("metadata", <<>>, "", <<>>)
    /\ UNCHANGED <<timers, styles, toggles, search, fetch, keys, mode, pc, topics, links, urlsData, graphData, currentGraphData,
                   heap, rendered, panel, adds>>

(* click on the svg background: resetControlsPanel() *)
ResetPanel ==
    /\ pc = "ready"
    /\ panel' = NoPanel
    /\ titles' = detach(titles)
    /\ suggestions' = <<>>
    /\ controls' = resetControls(mode, linkVisibility)
    /\ lastOp' = Op("reset", <<>>, "", <<>>)
    /\ UNCHANGED <<timers, styles, linkVisibility, linkDom, searchTimer, fetch, keys, mode, pc, topics, links, urlsData, graphData, currentGraphData, heap,
                   rendered, adds>>

(* click on save-csv-button, which is part of the initial controls only:   *)
(* each click listener on it runs; arg is the number of listeners that ran *)
Save ==
    /\ panel.type = "None"
    /\ lastOp' = IF controls.saveListeners = 0
                 THEN Op("save", 0, "", <<>>)
                 ELSE IF currentGraphData.isNull
                 THEN Op("save", controls.saveListeners, AlertNoData, <<>>)
                 ELSE Op("save", controls.saveListeners, "",
                         IF mode = "csv" THEN saveUrlsToCsv(currentGraphData, heap)
                         ELSE saveUrlsToCsvEscaped(currentGraphData, heap))
    /\ suggestions' = <<>>
    /\ UNCHANGED <<timers, styles, toggles, searchTimer, titles, fetch, keys, mode, pc, topics, links, urlsData, graphData, currentGraphData, heap,
                   rendered, panel, adds>>

(* the checkboxes of the page, and what the user types into the search box *)
PageToggles == {SubTopic, DependsOn}
PageQueries == {<<"r", "o">>, <<"o">>}

(* the user changes the checkbox of linkType: the browser flips the box,   *)
(* then each change listener on it calls toggleLinkType(linkType).  The    *)
(* listeners are attached by initializeLinkToggles, which the render and   *)
(* resetControlsPanel call.                                                *)
ToggleLinkType(linkType) ==
    /\ mode = "json"
    /\ panel.type = "None"
    /\ linkType \in ToggleTypes
    /\ linkVisibility' = toggleLinkType(linkVisibility, linkType,
                                        controls.toggleListeners[linkType])
    /\ controls' = [controls EXCEPT !.checked[linkType] = ~@]
    /\ linkDom' = IF rendered /\ controls.toggleListeners[linkType] > 0
                  THEN styleLinks(linkVisibility', currentGraphData.links)
                  ELSE linkDom
    /\ suggestions' = <<>>
    /\ lastOp' = Op("toggle", linkType, "", <<>>)
    /\ UNCHANGED <<timers, styles, searchTimer, titles, fetch, keys, mode, pc, topics, links, urlsData, graphData,
                   currentGraphData, heap, rendered, panel, adds>>

(* ---------------------------------------------------------------------- *)
(* Search                                                                  *)
(* ---------------------------------------------------------------------- *)
(* toLowerCase, one character *)
lowerChar(ch) == IF ch = "R" THEN "r" ELSE IF ch = "C" THEN "c" ELSE ch
toLowerCase(str) == [i \in 1..Len(str) |-> lowerChar(str[i])]

(* the while loop of calculateMatchScore, 0-based indices: the score and   *)
(* the query index when it ends                                            *)
RECURSIVE matchLoop(_, _, _, _, _)
matchLoop(text, query, score, queryIndex, textIndex) ==
    IF queryIndex < Len(query) /\ textIndex < Len(text)
    THEN IF text[textIndex + 1] = query[queryIndex + 1]
         THEN matchLoop(text, query,
                        score + 1 + (IF queryIndex > 0 /\ textIndex > 0
                                        /\ text[textIndex] = query[queryIndex]
                                     THEN 2 ELSE 0),
                        queryIndex + 1, textIndex + 1)
         ELSE matchLoop(text, query, score, queryIndex, textIndex + 1)
    ELSE [score |-> score, queryIndex |-> queryIndex]

(* a score that does not ask whether the whole query was matched *)
calculateMatchScorePartial(text, query) ==
    [num |-> matchLoop(text, query, 0, 0, 0).score, den |-> Len(text)]

(* calculateMatchScore(text, query) = num / den; 0 is 0 / 1 *)
calculateMatchScore(text, query) ==
    LET r == matchLoop(text, query, 0, 0, 0)
    IN  IF r.queryIndex # Len(query) THEN [num |-> 0, den |-> 1]
        ELSE [num |-> r.score, den |-> Len(text)]

(* b.score - a.score > 0: b goes before a *)
scoreLess(a, b) == a.num * b.den < b.num * a.den

(* results.sort((a, b) => b.score - a.score): stable, by falling score *)
RECURSIVE insertSorted(_, _)
insertSorted(sorted, item) ==
    IF sorted = <<>> THEN <<item>>
    ELSE IF scoreLess(Head(sorted).score, item.score)
         THEN <<item>> \o sorted
         ELSE <<Head(sorted)>> \o insertSorted(Tail(sorted), item)

RECURSIVE sortByScore(_, _)
sortByScore(items, acc) ==
    IF items = <<>> THEN acc
    ELSE sortByScore(Tail(items), insertSorted(acc, Head(items)))

(* fuzzySearch(query, nodes): the matching nodes (by index), best first *)
fuzzySearch(query, nodes) ==
    LET lowerCaseQuery == toLowerCase(query)
        scored == [i \in 1..Len(nodes) |->
                      [node |-> i,
                       score |-> calculateMatchScore(toLowerCase(nodes[i].title), lowerCaseQuery)]]
        results == SelectSeq(scored, LAMBDA item : item.score.num > 0)
    IN  sortByScore(results, <<>>)

(* displaySuggestions(results.slice(0, 10)) *)
MaxSuggestions == 10
displaySuggestions(results) ==
    LET shown == SubSeq(results, 1, IF Len(results) < MaxSuggestions THEN Len(results)
                                    ELSE MaxSuggestions)
    IN  [i \in 1..Len(shown) |-> shown[i].node]

NoTimer == <<>>

(* a clearTimeout that leaves the timer set *)
clearSearchTimerKeep(t) == t

(* clearTimeout(searchDebounceTimer): the variable holds the handle of the  *)
(* timer set last, the only one that can still be set                      *)
clearSearchTimer(t) == NoTimer

(* initializeSearch ran: it follows renderD3MindMap in the then handler *)
SearchReady == mode \in {"merge", "json"} /\ rendered

(* 'input' event on the search box with searchInput.value = query: the     *)
(* json script debounces the search, the merge script runs it at once      *)
SearchInput(query) ==
    /\ SearchReady
    /\ IF mode = "json"
       THEN IF Len(query) > 1
            THEN /\ searchTimer' = Append(clearSearchTimer(searchTimer), query)
                 /\ UNCHANGED suggestions
            ELSE /\ searchTimer' = clearSearchTimer(searchTimer)
                 /\ suggestions' = <<>>
       ELSE /\ UNCHANGED searchTimer
            /\ suggestions' = IF Len(query) > 1
                              THEN displaySuggestions(fuzzySearch(query, currentGraphData.nodes))
                              ELSE <<>>
    /\ lastOp' = Op("input", query, "", <<>>)
    /\ UNCHANGED <<timers, styles, toggles, titles, fetch, keys, mode, pc, topics, links, urlsData, graphData,
                   currentGraphData, heap, rendered, panel, adds>>

(* the debounce timer fires *)
SearchFire ==
    /\ searchTimer # NoTimer
    /\ suggestions' = displaySuggestions(fuzzySearch(Head(searchTimer), currentGraphData.nodes))
    /\ searchTimer' = Tail(searchTimer)
    /\ lastOp' = Op("search", Head(searchTimer), "", <<>>)
    /\ UNCHANGED <<timers, styles, toggles, titles, fetch, keys, mode, pc, topics, links, urlsData, graphData,
                   currentGraphData, heap, rendered, panel, adds>>

(* click on suggestion i: focusOnNode, showUrlManager(node, 'Node'),        *)
(* searchInput.value = '', clearSuggestions                                *)
ClickSuggestion(i) ==
    /\ i \in 1..Len(suggestions)
    /\ panel' = [type |-> "Node", idx |-> suggestions[i]]
    /\ titles' = showTitles(titles, UrlsAt(heap, currentGraphData.nodes[suggestions[i]].urls))
    /\ PendingCount(titles') <= MaxLookups
    /\ suggestions' = <<>>
    /\ controls' = NoControls
    /\ lastOp' = Op("suggestion", <<>>, "", <<>>)
    /\ UNCHANGED <<timers, styles, linkVisibility, linkDom, searchTimer, fetch, keys, mode, pc, topics, links, urlsData, graphData,
                   currentGraphData, heap, rendered, adds>>

(* ---------------------------------------------------------------------- *)
(* The page: a few data sets, every user action                            *)
(* ---------------------------------------------------------------------- *)
UrlQ == <<"https://x.test/", QUOTE>>
AddCandidates == {UrlA, UrlQ, <<"not-a-url">>, <<>>}

KeyDepends == Id1 \o <<PIPE>> \o Id11 \o <<PIPE>> \o DependsOn
KeySubTopic == Id1 \o <<PIPE>> \o Id11 \o <<PIPE>> \o SubTopic

PageTopics ==
    { <<Topic(Id1, <<"Root">>), Topic(Id11, <<"Child">>)>>,
      <<Topic(Id1, <<"Root">>), Topic(Id11, <<"Child">>), Topic(Id11, <<"Child">>)>> }
PageLinks == { <<>>, <<Relation(Id1, Id11, DependsOn)>>, <<Relation(Id99, Id1, DependsOn)>> }
PageUrls == { <<>>, <<UrlRow(Id1, UrlA), UrlRow(KeyDepends, UrlB)>> }

MergeDocs ==
    { [nodes |-> <<DocNode(Id1, <<"R", "o", "o", "t">>, FALSE, <<>>), DocNode(Id11, <<"C", "h", "i", "l", "d">>, FALSE, <<>>)>>,
       links |-> <<DocLink(Id1, Id11, SubTopic, FALSE, <<>>),
                   DocLink(Id1, Id11, DependsOn, FALSE, <<>>)>>],
      [nodes |-> <<DocNode(Id1, <<"R", "o", "o", "t">>, FALSE, <<>>)>>,
       links |-> <<DocLink(Id1, Id99, DependsOn, FALSE, <<>>)>>] }
MergeUrlRows == { UrlRow(Id1, UrlA), UrlRow(KeySubTopic, UrlB), UrlRow(KeyDepends, UrlA) }
MergeUrls == { <<>>, <<UrlRow(Id1, UrlA), UrlRow(KeySubTopic, UrlB)>> }

JsonDocs ==
    { [nodes |-> <<DocNode(Id1, <<"R", "o", "o", "t">>, TRUE, <<UrlV, UrlV>>),
                   DocNode(Id11, <<"C", "h", "i", "l", "d">>, FALSE, <<>>)>>,
       links |-> <<DocLink(Id1, Id11, SubTopic, TRUE, <<UrlV>>)>>] }

InitCommon ==
    /\ pc = "loading"
    /\ linkVisibility = AllVisible
    /\ linkDom = <<>>
    /\ searchTimer = NoTimer
    /\ suggestions = <<>>
    /\ nodeStyleCache = EmptyCache
    /\ loader = InitialLoader
    /\ sim = NoSim
    /\ controls \in {InitialControls(TRUE), InitialControls(FALSE)}
    /\ nodeDom = <<>>
    /\ currentGraphData = Null
    /\ heap = <<>>
    /\ rendered = FALSE
    /\ panel = NoPanel
    /\ adds = 0
    /\ keys = <<>>
    /\ titles = <<>>
    /\ lastOp = Op("init", <<>>, "", <<>>)

Init ==
    /\ InitCommon
    /\ \/ /\ mode = "csv"
          /\ topics \in PageTopics /\ links \in PageLinks /\ urlsData \in PageUrls
          /\ graphData = NoDoc
       \/ /\ mode = "merge"
          /\ topics = <<>> /\ links = <<>> /\ urlsData \in MergeUrls
          /\ graphData \in MergeDocs
       \/ /\ mode = "json"
          /\ topics = <<>> /\ links = <<>> /\ urlsData = <<>>
          /\ graphData \in JsonDocs
    /\ fetch = Pending

Next ==
    \/ LoadCsv
    \/ LoadMerge
    \/ LoadJson
    \/ LoadFail
    \/ \E f \in {"topics", "links", "urls", "graph"}, res \in {"ok", "failed"} : FetchSettle(f, res)
    \/ \E i \in 1..MaxTopics : ShowNode(i)
    \/ \E k \in 1..(MaxTopics + MaxLinks) : ShowLink(k)
    \/ \E value \in AddCandidates : AddUrl(value)
    \/ \E t \in 1..(2 * MaxLookups), outcome \in {"title", "notitle", "fail"} :
           MetadataSettle(t, outcome)
    \/ ResetPanel
    \/ Save

Spec == Init /\ [][Next]_vars

(* ---------------------------------------------------------------------- *)
(* The page with its search box and link-type checkboxes, on documents     *)
(* whose urls are not videos                                               *)
(* ---------------------------------------------------------------------- *)
UserDocs ==
    { [nodes |-> <<DocNode(Id1, <<"R", "o", "o", "t">>, TRUE, <<UrlA>>),
                   DocNode(Id11, <<"C", "h", "i", "l", "d">>, FALSE, <<>>)>>,
       links |-> <<DocLink(Id1, Id11, SubTopic, TRUE, <<UrlB>>)>>] }

InitUser ==
    /\ InitCommon
    /\ \/ /\ mode = "merge"
          /\ topics = <<>> /\ links = <<>> /\ urlsData \in MergeUrls
          /\ graphData \in MergeDocs
       \/ /\ mode = "json"
          /\ topics = <<>> /\ links = <<>> /\ urlsData = <<>>
          /\ graphData \in UserDocs
    /\ fetch = Pending

NextUser ==
    \/ LoadMerge
    \/ LoadJson
    \/ \E f \in {"urls", "graph"} : FetchSettle(f, "ok")
    \/ \E i \in 1..MaxTopics : ShowNode(i)
    \/ \E k \in 1..(MaxTopics + MaxLinks) : ShowLink(k)
    \/ \E value \in AddCandidates : AddUrl(value)
    \/ ResetPanel
    \/ Save
    \/ \E linkType \in PageToggles : ToggleLinkType(linkType)
    \/ \E query \in PageQueries : SearchInput(query)
    \/ SearchFire
    \/ \E i \in 1..MaxTopics : ClickSuggestion(i)

SpecUser == InitUser /\ [][NextUser]_vars

(* The builders alone, over every combination of input rows: the state     *)
(* in which the urls file is the last one the page still waits for.        *)
InitBuild ==
    /\ InitCommon
    /\ \/ /\ mode = "csv"
          /\ topics \in SeqUpTo(TopicRows, MaxTopics)
          /\ links \in SeqUpTo(LinkRows, MaxLinks)
          /\ urlsData \in {<<>>} \cup {<<row>> : row \in UrlRows}
          /\ graphData = NoDoc
       \/ /\ mode = "csv"
          /\ topics \in PageTopics
          /\ links \in PageLinks
          /\ urlsData \in SeqUpTo(UrlRows, MaxUrlRecords)
          /\ graphData = NoDoc
       \/ /\ mode = "merge"
          /\ topics = <<>> /\ links = <<>>
          /\ urlsData \in SeqUpTo(MergeUrlRows, MaxUrlRecords)
          /\ graphData \in MergeDocs
    /\ fetch = [AllOk EXCEPT !["urls"] = "pending"]

NextBuild == LoadCsv \/ LoadMerge \/ LoadFail

SpecBuild == InitBuild /\ [][NextBuild]_vars

(* ---------------------------------------------------------------------- *)
(* getLinkId alone, on every pair of triples over a few field values       *)
(* ---------------------------------------------------------------------- *)
Id11Plain == <<"1", "1">>
IdPipe == <<"1", PIPE, "1">>
KeyIds == {Id1, Id11Plain, IdPipe}
KeyRelations == {DependsOn, HierRelation}
KeyTriples == {Relation(s, t, r) : s \in KeyIds, t \in KeyIds, r \in KeyRelations}

InitKey ==
    /\ InitCommon
    /\ mode = "csv"
    /\ topics = <<>>
    /\ links \in [1..2 -> KeyTriples]
    /\ urlsData = <<>>
    /\ graphData = NoDoc
    /\ fetch = Pending

(* getLinkId(source, target, relation) for each row *)
ComputeKeys ==
    /\ pc = "loading"
    /\ keys' = [i \in 1..Len(links) |->
                   getLinkId(IdEnd(links[i].Source), IdEnd(links[i].Target), links[i].Relation)]
    /\ pc' = "ready"
    /\ lastOp' = Op("keys", <<>>, "", <<>>)
    /\ UNCHANGED <<timers, styles, toggles, search, titles, fetch, mode, topics, links, urlsData, graphData, currentGraphData, heap,
                   rendered, panel, adds>>

NextKey == ComputeKeys

SpecKey == InitKey /\ [][NextKey]_vars

(* ---------------------------------------------------------------------- *)
(* The render alone, on documents and topic files with ids of depth 1 to 3, *)
(* with and without high level topics                                      *)
(* ---------------------------------------------------------------------- *)
Id2 == <<"2">>
StyleIds == {Id1, Id2, Id11, Id21, Id112}
StyleNodes == {DocNode(id, <<"n">>, FALSE, <<>>) : id \in StyleIds}
HighLevelTopic(id, subs) == [id |-> id, name |-> <<"n">>, sub_topics |-> subs]
StyleDocs ==
    {[nodes |-> ns, links |-> <<>>] : ns \in SeqUpTo(StyleNodes, MaxTopics)}
    \cup {[nodes |-> ns, links |-> <<>>,
           high_level_topics |-> <<HighLevelTopic(Id1, <<Id11, Id112>>)>>] :
              ns \in SeqUpTo(StyleNodes, MaxTopics)}

InitStyle ==
    /\ InitCommon
    /\ \/ /\ mode = "csv"
          /\ topics \in SeqUpTo(TopicRows, MaxTopics)
          /\ links = <<>> /\ urlsData = <<>>
          /\ graphData = NoDoc
       \/ /\ mode = "merge"
          /\ topics = <<>> /\ links = <<>> /\ urlsData = <<>>
          /\ graphData \in {doc \in StyleDocs : highLevelTopicsOf(doc) = <<>>}
       \/ /\ mode = "json"
          /\ topics = <<>> /\ links = <<>> /\ urlsData = <<>>
          /\ graphData \in StyleDocs
    /\ fetch = [AllOk EXCEPT ![IF mode = "json" THEN "graph" ELSE "urls"] = "pending"]

NextStyle == LoadCsv \/ LoadMerge \/ LoadJson

SpecStyle == InitStyle /\ [][NextStyle]_vars

(* ---------------------------------------------------------------------- *)
(* The json page with all four checkboxes, on documents with links of      *)
(* known and unknown types, one of them with a link to a missing node     *)
(* ---------------------------------------------------------------------- *)
Related == <<"related">>
ToggleNodes ==
    <<DocNode(Id1, <<"R", "o", "o", "t">>, FALSE, <<>>),
      DocNode(Id11, <<"C", "h", "i", "l", "d">>, FALSE, <<>>)>>
ToggleDocs ==
    { [nodes |-> ToggleNodes,
       links |-> <<DocLink(Id1, Id11, SubTopic, FALSE, <<>>),
                   DocLink(Id1, Id11, DependsOn, FALSE, <<>>),
                   DocLink(Id1, Id11, Related, FALSE, <<>>)>>],
      [nodes |-> ToggleNodes,
       links |-> <<DocLink(Id1, Id11, ExtendsType, FALSE, <<>>),
                   DocLink(Id1, Id11, Other, FALSE, <<>>)>>],
      [nodes |-> ToggleNodes,
       links |-> <<DocLink(Id1, Id99, SubTopic, FALSE, <<>>)>>] }

InitToggle ==
    /\ InitCommon
    /\ mode = "json"
    /\ topics = <<>> /\ links = <<>> /\ urlsData = <<>>
    /\ graphData \in ToggleDocs
    /\ fetch = Pending

NextToggle ==
    \/ LoadJson
    \/ LoadFail
    \/ \E linkType \in ToggleTypes : ToggleLinkType(linkType)
    \/ \E i \in 1..MaxTopics : ShowNode(i)
    \/ \E k \in 1..(MaxTopics + MaxLinks) : ShowLink(k)
    \/ ResetPanel
    \/ Save

SpecToggle == InitToggle /\ [][NextToggle]_vars

(* ---------------------------------------------------------------------- *)
(* The json page with its timers: the simulation ticks and ends, a drag    *)
(* restarts it, timers and animation frames fire                           *)
(* ---------------------------------------------------------------------- *)
MaxTicks == 41
MaxRestarts == 1

(* one tick of the running simulation *)
Tick ==
    /\ sim.state = "running"
    /\ sim.tickCount < MaxTicks
    /\ sim' = onTick(sim)
    /\ lastOp' = Op("tick", <<>>, "", <<>>)
    /\ UNCHANGED <<loader, styles, toggles, search, titles, fetch, keys, mode, pc, topics, links,
                   urlsData, graphData, currentGraphData, heap, rendered, panel, adds>>

(* simulation.on("end", ...): renderContours(), clearLoadingTimeout(),      *)
(* hideLoadingScreen()                                                     *)
SimulationEnd ==
    /\ sim.state = "running"
    /\ sim' = [renderContours(sim) EXCEPT !.state = "ended", !.requested = FALSE]
    /\ loader' = hideLoadingScreen(clearLoadingTimeout(loader))
    /\ lastOp' = Op("end", <<>>, "", <<>>)
    /\ UNCHANGED <<styles, toggles, search, titles, fetch, keys, mode, pc, topics, links,
                   urlsData, graphData, currentGraphData, heap, rendered, panel, adds>>

(* dragstarted: simulation.alphaTarget(0.3).restart() *)
DragRestart ==
    /\ sim.state = "ended"
    /\ sim.restarts < MaxRestarts
    /\ sim' = [sim EXCEPT !.state = "running", !.restarts = @ + 1, !.requested = FALSE]
    /\ lastOp' = Op("drag", <<>>, "", <<>>)
    /\ UNCHANGED <<loader, styles, toggles, search, titles, fetch, keys, mode, pc, topics, links,
                   urlsData, graphData, currentGraphData, heap, rendered, panel, adds>>

(* the animation frame with this id runs: () => renderContours() *)
FrameFire(id) ==
    /\ id \in sim.rafs
    /\ sim' = [renderContours([sim EXCEPT !.rafs = @ \ {id}]) EXCEPT !.requested = FALSE]
    /\ lastOp' = Op("frame", <<>>, "", <<>>)
    /\ UNCHANGED <<loader, styles, toggles, search, titles, fetch, keys, mode, pc, topics, links,
                   urlsData, graphData, currentGraphData, heap, rendered, panel, adds>>

(* the debounce timer with this id runs: the contours are drawn *)
ContourTimerFire(id) ==
    /\ id \in sim.contourTimers
    /\ sim' = [sim EXCEPT !.contourTimers = @ \ {id}, !.requested = FALSE]
    /\ lastOp' = Op("contours", <<>>, "", <<>>)
    /\ UNCHANGED <<loader, styles, toggles, search, titles, fetch, keys, mode, pc, topics, links,
                   urlsData, graphData, currentGraphData, heap, rendered, panel, adds>>

(* the 10 second timeout runs: hideLoadingScreen() *)
LoadingTimeoutFire ==
    /\ mode = "json"
    /\ loader.timeout = "armed"
    /\ loader' = hideLoadingScreen([loader EXCEPT !.timeout = "fired"])
    /\ lastOp' = Op("timeout", <<>>, "", <<>>)
    /\ UNCHANGED <<sim, styles, toggles, search, titles, fetch, keys, mode, pc, topics, links,
                   urlsData, graphData, currentGraphData, heap, rendered, panel, adds>>

(* a 300 ms timer of hideLoadingScreen runs: classList.add('hidden') and    *)
(* setTimeout(..., 500)                                                    *)
FadeFire ==
    /\ loader.fade > 0
    /\ loader' = [loader EXCEPT !.fade = @ - 1, !.hiddenClass = TRUE, !.remove = @ + 1]
    /\ lastOp' = Op("fade", <<>>, "", <<>>)
    /\ UNCHANGED <<sim, styles, toggles, search, titles, fetch, keys, mode, pc, topics, links,
                   urlsData, graphData, currentGraphData, heap, rendered, panel, adds>>

(* a 500 ms timer runs: loadingScreen.style.display = 'none' *)
RemoveFire ==
    /\ loader.remove > 0
    /\ loader' = [loader EXCEPT !.remove = @ - 1, !.display = "none"]
    /\ lastOp' = Op("remove", <<>>, "", <<>>)
    /\ UNCHANGED <<sim, styles, toggles, search, titles, fetch, keys, mode, pc, topics, links,
                   urlsData, graphData, currentGraphData, heap, rendered, panel, adds>>

InitSim ==
    /\ InitCommon
    /\ mode = "json"
    /\ topics = <<>> /\ links = <<>> /\ urlsData = <<>>
    /\ graphData \in ToggleDocs
    /\ fetch = Pending

NextSim ==
    \/ LoadJson
    \/ LoadFail
    \/ Tick
    \/ SimulationEnd
    \/ DragRestart
    \/ \E id \in 1..(MaxTicks + MaxRestarts + 2) : FrameFire(id)
    \/ \E id \in 1..(MaxTicks + MaxRestarts + 2) : ContourTimerFire(id)
    \/ LoadingTimeoutFire
    \/ FadeFire
    \/ RemoveFire

SpecSim == InitSim /\ [][NextSim]_vars

(* the browser runs every timer that stays set *)
FairSpecSim ==
    /\ SpecSim
    /\ WF_vars(LoadingTimeoutFire) /\ WF_vars(FadeFire) /\ WF_vars(RemoveFire)

(* ---------------------------------------------------------------------- *)
(* The json page and its search box: documents with many names, the user   *)
(* types, the debounce timer fires, a suggestion or the canvas is clicked  *)
(* ---------------------------------------------------------------------- *)
SearchName(name) == DocNode(name, name, FALSE, <<>>)
SearchDocs ==
    { [nodes |-> <<SearchName(<<"R", "o", "o", "t">>), SearchName(<<"C", "o", "r">>),
                   SearchName(<<"r", "o">>), SearchName(<<"r">>),
                   SearchName(<<"t", "a", "r", "o">>), SearchName(<<"o", "r", "o">>)>>,
       links |-> <<>>],
      [nodes |-> <<SearchName(<<"r", "o">>), SearchName(<<"r", "o", "o">>),
                   SearchName(<<"r", "x", "o">>), SearchName(<<"R", "o", "o", "t">>),
                   SearchName(<<"t", "a", "r", "o">>), SearchName(<<"C", "r", "o">>),
                   SearchName(<<"C", "o", "r">>), SearchName(<<"r", "h", "o">>),
                   SearchName(<<"o", "r", "r", "o">>), SearchName(<<"r", "o", "t">>),
                   SearchName(<<"x", "r", "x", "o">>), SearchName(<<"r", "r", "o">>)>>,
       links |-> <<>>] }

(* what the user types: the query of the search runs has two characters or *)
(* more                                                                    *)
SearchQueries ==
    { <<>>, <<"o">>, <<"r", "o">>, <<"R", "o">>, <<"o", "r">>, <<"o", "o">>,
      <<"r", "o", "o">>, <<"x", "y">> }

InitSearch ==
    /\ InitCommon
    /\ mode = "json"
    /\ topics = <<>> /\ links = <<>> /\ urlsData = <<>>
    /\ graphData \in SearchDocs
    /\ fetch = Pending

NextSearch ==
    \/ LoadJson
    \/ \E query \in SearchQueries : SearchInput(query)
    \/ SearchFire
    \/ \E i \in 1..MaxSuggestions : ClickSuggestion(i)
    \/ ResetPanel

SpecSearch == InitSearch /\ [][NextSearch]_vars


(* ====================================================================== *)
(* Properties                                                              *)
(* ====================================================================== *)
Nodes == currentGraphData.nodes
Links == currentGraphData.links
NodeIdx == 1..Len(Nodes)
LinkIdx == 1..Len(Links)

(* createD3Graph has produced the graph of this state *)
Built == mode = "csv" /\ pc = "ready"

(* the last handler exported the graph of this state *)
Exported == lastOp.op = "save" /\ lastOp.alert = ""

(* the hierarchical edges follow the dependency edges, one per valid row *)
HierIdx == {k \in LinkIdx : k > Len(validLinksOf(links))}

(* the key under which urls attach to a link, and under which it is exported *)
LinkKey(l) == getLinkId(l.source, l.target, IF mode = "csv" THEN l.relation ELSE l.type)

(* the URLs of the rows of entries whose Identifier is key, in row order *)
UrlsOfRows(entries, key) ==
    LET sel == SelectSeq(entries, LAMBDA e : e.Identifier = key)
    IN  [i \in 1..Len(sel) |-> sel[i].URL]

(* urlsFor(identifier) of an index: empty when absent *)
urlsFor(m, key) == IF mapGet(m, key) = Undefined THEN <<>> ELSE m.cells[mapGet(m, key)]

(* C1: exporting the graph and re-building the resource index from the     *)
(* exported text gives, for every node id and every edge composite key,    *)
(* exactly the current urls list of that node or edge.                     *)
C1_RoundTrip ==
    Exported =>
        LET index == buildUrlMap(csvParse(lastOp.out))
        IN  /\ \A i \in NodeIdx :
                   urlsFor(index, Nodes[i].id) = UrlsAt(heap, Nodes[i].urls)
            /\ \A k \in LinkIdx :
                   urlsFor(index, LinkKey(Links[k])) = UrlsAt(heap, Links[k].urls)

(* C2: in the graph returned by createD3Graph every edge's source and      *)
(* target are ids of nodes of that graph (a relation record naming a       *)
(* missing topic yields no edge).                                          *)
C2_EdgesReferenceNodes ==
    Built => \A k \in LinkIdx :
                 /\ IdOf(Links[k].source) \in nodeIdSetOf(Nodes)
                 /\ IdOf(Links[k].target) \in nodeIdSetOf(Nodes)

(* C3: every node of depth >= 2 whose parent id is a node id has exactly   *)
(* one hierarchical edge from the parent id to it; a node of depth 1 or    *)
(* with an absent parent is the target of no hierarchical edge.            *)
HierInto(id) == {k \in HierIdx : IdOf(Links[k].target) = id}
C3_HierarchicalInference ==
    Built => \A i \in NodeIdx :
                 LET id == Nodes[i].id
                     parent == parentIdOf(id)
                 IN  IF Len(split(id, DOT)) >= 2 /\ parent \in nodeIdSetOf(Nodes)
                     THEN Cardinality({k \in HierInto(id) : IdOf(Links[k].source) = parent}) = 1
                     ELSE HierInto(id) = {}

(* C4 as claimed: every hierarchical edge carries the relation type        *)
(* "sub topic".                                                            *)
C4_HierarchicalIsSubTopic ==
    Built => \A k \in HierIdx : Links[k].relation = <<"sub", " ", "topic">>

(* C4 as amended: every hierarchical edge carries the relation             *)
(* "parent-child" and the type "hierarchical", so that its composite key   *)
(* is parent|child|parent-child.                                           *)
C4_HierarchicalIsParentChild ==
    Built => \A k \in HierIdx :
                 /\ Links[k].relation = <<"parent-child">>
                 /\ Links[k].type = <<"hierarchical">>
                 /\ LinkKey(Links[k]) =
                        parentIdOf(IdOf(Links[k].target)) \o <<PIPE>>
                            \o IdOf(Links[k].target) \o <<PIPE, "parent-child">>

C4_Witness == Built /\ HierIdx # {}

(* C5: after a build each node's urls is the sequence of URLs of the rows  *)
(* whose Identifier is the node id, in row order, duplicates kept; each    *)
(* edge's urls is that sequence for its composite key; empty when no row   *)
(* matches.                                                                *)
C5_ResourceAttachment ==
    (pc = "ready") =>
        /\ \A i \in NodeIdx :
               /\ Nodes[i].urls # Undefined
               /\ heap[Nodes[i].urls] = UrlsOfRows(urlsData, Nodes[i].id)
        /\ \A k \in LinkIdx :
               /\ Links[k].urls # Undefined
               /\ heap[Links[k].urls] = UrlsOfRows(urlsData, LinkKey(Links[k]))

C5_Witness ==
    /\ Built
    /\ \E i \in NodeIdx : heap[Nodes[i].urls] = <<UrlA, UrlB, UrlA>>
    /\ \E i \in NodeIdx : heap[Nodes[i].urls] = <<>>
    /\ \E k \in LinkIdx : heap[Links[k].urls] = <<>>

(* C6: for field values without '|', two triples (source id, target id,    *)
(* relation type) have the same composite key exactly when they are equal; *)
(* equal triples always have equal keys.                                   *)
NoPipe(str) == \A i \in 1..Len(str) : str[i] # PIPE
PipeFree(row) == NoPipe(row.Source) /\ NoPipe(row.Target) /\ NoPipe(row.Relation)
C6_CompositeKey ==
    (pc = "ready" /\ Len(keys) = 2) =>
        /\ links[1] = links[2] => keys[1] = keys[2]
        /\ (PipeFree(links[1]) /\ PipeFree(links[2]))
               => (keys[1] = keys[2] <=> links[1] = links[2])

C6_Witness ==
    /\ pc = "ready" /\ Len(keys) = 2
    /\ PipeFree(links[1]) /\ PipeFree(links[2])
    /\ links[1].Source = links[2].Source /\ links[1].Target = links[2].Target
    /\ links[1].Relation # links[2].Relation
    /\ keys[1] # keys[2]

(* C7: an add-URL action with a string that is no absolute URL leaves the  *)
(* urls list of the displayed element and of every other node and edge     *)
(* exactly as it was.                                                      *)
InvalidCandidates == {<<"not-a-url">>, <<>>}
C7_RejectionLeavesUrlsUnchanged ==
    [][(lastOp'.op = "add" /\ lastOp'.arg \in InvalidCandidates) =>
           /\ Len(currentGraphData'.nodes) = Len(currentGraphData.nodes)
           /\ Len(currentGraphData'.links) = Len(currentGraphData.links)
           /\ \A i \in NodeIdx :
                  UrlsAt(heap', currentGraphData'.nodes[i].urls) = UrlsAt(heap, Nodes[i].urls)
           /\ \A k \in LinkIdx :
                  UrlsAt(heap', currentGraphData'.links[k].urls) = UrlsAt(heap, Links[k].urls)
      ]_vars

C7_Witness ==
    /\ lastOp.op = "add" /\ lastOp.arg = <<"not-a-url">>
    /\ UrlsAt(heap, ElementOf(currentGraphData, panel).urls) # <<>>

(* C8 as claimed: every add-URL action whose candidate is no valid         *)
(* absolute URL, the empty string included, is reported to the user.       *)
C8_EveryInvalidReported ==
    (lastOp.op = "add" /\ lastOp.arg \in InvalidCandidates) => lastOp.alert = AlertInvalid

(* C8 as amended: every add-URL action whose candidate is a non-empty      *)
(* string that is no valid absolute URL is reported to the user; an empty  *)
(* candidate is ignored without a message.                                 *)
C8_NonEmptyInvalidReported ==
    /\ (lastOp.op = "add" /\ lastOp.arg = <<"not-a-url">>) => lastOp.alert = AlertInvalid
    /\ (lastOp.op = "add" /\ lastOp.arg = <<>>) => lastOp.alert = ""

C8_Witness == lastOp.op = "add" /\ lastOp.arg = <<"not-a-url">> /\ lastOp.alert = AlertInvalid

(* C9: a successful add-URL action appends the url as the last element of  *)
(* the displayed element's urls list (creating the list when the element   *)
(* had none) and so lengthens it by exactly one, also when the url is      *)
(* already in the list.                                                    *)
ValidCandidates == {UrlA, UrlQ}
C9_AppendNoUniqueness ==
    [][(lastOp'.op = "add" /\ lastOp'.arg \in ValidCandidates) =>
           /\ panel' = panel
           /\ UrlsAt(heap', ElementOf(currentGraphData', panel').urls)
                  = Append(UrlsAt(heap, ElementOf(currentGraphData, panel).urls), lastOp'.arg)
      ]_vars

C9_Witness ==
    /\ lastOp.op = "add" /\ lastOp.arg = UrlA
    /\ LET urls == UrlsAt(heap, ElementOf(currentGraphData, panel).urls)
       IN  Len(urls) >= 2 /\ urls[Len(urls)] = UrlA /\ urls[Len(urls) - 1] = UrlA

(* C10: the exported text is the header followed by one row (node id, url) *)
(* for each url of each node, nodes in graph order and urls in list order, *)
(* then one row (composite key, url) for each url of each edge in graph    *)
(* order; elements without urls give no row, so the number of data rows is *)
(* the total number of urls held by the nodes and edges.                   *)
RowOf(id, url) == IF mode = "csv" THEN csvRow(id, url) ELSE csvRowEscaped(id, url)
NodeRows(i) ==
    LET urls == UrlsAt(heap, Nodes[i].urls)
    IN  Flatten([j \in 1..Len(urls) |-> RowOf(Nodes[i].id, urls[j])])
LinkRowsOf(k) ==
    LET urls == UrlsAt(heap, Links[k].urls)
    IN  Flatten([j \in 1..Len(urls) |-> RowOf(LinkKey(Links[k]), urls[j])])
RECURSIVE SumLen(_)
SumLen(ss) == IF ss = <<>> THEN 0 ELSE Len(Head(ss)) + SumLen(Tail(ss))
TotalUrls ==
    SumLen([i \in NodeIdx |-> UrlsAt(heap, Nodes[i].urls)])
        + SumLen([k \in LinkIdx |-> UrlsAt(heap, Links[k].urls)])
DataRows(text) == Cardinality({i \in 1..Len(text) : text[i] = NEWLINE}) - 1
C10_ExportContentAndOrder ==
    Exported =>
        /\ lastOp.out = Header \o Flatten([i \in NodeIdx |-> NodeRows(i)])
                               \o Flatten([k \in LinkIdx |-> LinkRowsOf(k)])
        /\ DataRows(lastOp.out) = TotalUrls

C10_Witness ==
    /\ Exported
    /\ \E i \in NodeIdx : Len(UrlsAt(heap, Nodes[i].urls)) >= 2
    /\ \E i \in NodeIdx : UrlsAt(heap, Nodes[i].urls) = <<>>
    /\ \E k \in LinkIdx : UrlsAt(heap, Links[k].urls) # <<>>

(* C11: every exported row reads back, through a standard CSV reader, as   *)
(* exactly the identifier and the url it was written from: a field holding *)
(* ',' or '"' is enclosed in quotes with each embedded quote doubled.      *)
ReadsBack(id, url) == parseRows(RowOf(id, url)) = <<(<<id, url>>)>>
C11_ExportEscaping ==
    Exported =>
        /\ \A i \in NodeIdx :
               LET urls == UrlsAt(heap, Nodes[i].urls)
               IN  \A j \in 1..Len(urls) : ReadsBack(Nodes[i].id, urls[j])
        /\ \A k \in LinkIdx :
               LET urls == UrlsAt(heap, Links[k].urls)
               IN  \A j \in 1..Len(urls) : ReadsBack(LinkKey(Links[k]), urls[j])

(* C12: the graph is built and rendered only once every file of the page   *)
(* has loaded; when a load has failed the graph is never rendered,         *)
(* currentGraphData stays null, and a click on save reports that no data   *)
(* is available and exports nothing.                                       *)
SomeFailed == \E f \in FilesOf(mode) : fetch[f] = "failed"
Shown(title) == [text |-> title.text, opacity |-> title.opacity, display |-> title.display]
TitleIdx == 1..Len(titles)

(* the lookup of title element t settles in this step *)
Settles(t) == lastOp'.op = "metadata" /\ titles[t].pending /\ ~titles'[t].pending

(* C13: when the lookup of an entry of a replaced panel settles, neither   *)
(* the displayed panel nor any element of the replaced panel changes.      *)
C13_StaleResolutionDiscarded ==
    [][\A t \in TitleIdx :
           (Settles(t) /\ ~titles[t].attached) =>
               /\ panel' = panel
               /\ Len(titles') = Len(titles)
               /\ \A u \in TitleIdx : Shown(titles'[u]) = Shown(titles[u])
      ]_vars

(* C14: when the lookup of one entry fails, only that entry's title        *)
(* element changes (it is hidden): the other entries, the panel, the urls  *)
(* lists of all nodes and edges stay as they are, and no lookup is issued  *)
(* again.                                                                  *)
Fails(t) == lastOp'.op = "metadata" /\ titles[t].pending /\ titles'[t].display = "none"
C14_MetadataFailureIsolation ==
    [][\A t \in TitleIdx :
           Fails(t) =>
               /\ Len(titles') = Len(titles)
               /\ \A u \in TitleIdx \ {t} : titles'[u] = titles[u]
               /\ titles'[t].text = titles[t].text
               /\ PendingCount(titles') = PendingCount(titles) - 1
               /\ panel' = panel /\ heap' = heap /\ currentGraphData' = currentGraphData
               /\ rendered' = rendered /\ pc' = pc
      ]_vars

C14_Witness ==
    /\ lastOp.op = "metadata"
    /\ panel.type = "Node"
    /\ \E t, u \in TitleIdx :
           /\ titles[t].attached /\ titles[t].display = "none" /\ titles[t].entry = 1
           /\ titles[u].attached /\ titles[u].text = "the title" /\ titles[u].entry = 2

(* a is a prefix of b *)
IsPrefix(a, b) == Len(a) <= Len(b) /\ SubSeq(b, 1, Len(a)) = a

(* C15: in every step of the page (open a panel, add a url, reset, search, *)
(* toggle a link type, save) the urls list of every node and edge before   *)
(* the step is a prefix of its urls list after the step.                   *)
C15_UrlListsOnlyGrow ==
    [][~currentGraphData.isNull =>
           /\ ~currentGraphData'.isNull
           /\ Len(currentGraphData'.nodes) = Len(Nodes)
           /\ Len(currentGraphData'.links) = Len(Links)
           /\ \A i \in NodeIdx :
                  IsPrefix(UrlsAt(heap, Nodes[i].urls), UrlsAt(heap', currentGraphData'.nodes[i].urls))
           /\ \A k \in LinkIdx :
                  IsPrefix(UrlsAt(heap, Links[k].urls), UrlsAt(heap', currentGraphData'.links[k].urls))
      ]_vars

C15_Witness ==
    /\ lastOp.op = "search" /\ suggestions # <<>>
    /\ ~linkVisibility[SubTopic]
    /\ ~currentGraphData.isNull
    /\ UrlsAt(heap, Nodes[1].urls) = <<UrlA, UrlQ, UrlA>>

C17_UniqueNodeIds ==
    Built => \A i, j \in NodeIdx : Nodes[i].id = Nodes[j].id => i = j

C19_DisplayTierByDepth ==
    rendered =>
        /\ Len(nodeDom) = Len(Nodes)
        /\ \A i \in NodeIdx :
               LET depth == Len(split(Nodes[i].id, DOT))
                   circle == nodeDom[i]
               IN  /\ depth = 1 => (circle.r = 20 /\ circle.stroke # "none"
                                    /\ circle.strokeWidth > 0)
                   /\ depth = 2 => (circle.r = 15 /\ circle.stroke = "none")
                   /\ depth >= 3 => (circle.r = 10 /\ circle.stroke = "none")
        /\ \A id \in DOMAIN nodeStyleCache : nodeStyleCache[id] = nodeStyle(id)

(* what a node or link record holds, its urls array read through the heap *)
NodeView(n, h) ==
    [id |-> n.id, title |-> n.title, description |-> n.description,
     hasUrls |-> n.urls # Undefined, urls |-> UrlsAt(h, n.urls)]
LinkView(l, s, t, h) ==
    [source |-> s, target |-> t, type |-> l.type,
     hasUrls |-> l.urls # Undefined, urls |-> UrlsAt(h, l.urls)]

(* the pre-built graph as it is passed to mergeUrlsIntoGraph.  The function *)
(* returns the object it was passed, so after the build the records passed  *)
(* to it are the records of currentGraphData.                               *)
PassedGraph == parseDoc(graphData, buildUrlMap(urlsData).cells)

(* C20: the build leaves the topic, relation and resource records and the  *)
(* records of the pre-built graph passed to it as they were, and the graph *)
(* it yields is the graph a second build from the same inputs yields.      *)
C20_BuildIsPure ==
    [][lastOp'.op = "load" =>
           /\ topics' = topics /\ links' = links /\ urlsData' = urlsData
           /\ mode = "csv" =>
                  LET again == createD3Graph(validTopicsOf(topics'), validLinksOf(links'),
                                             urlsData')
                  IN  /\ currentGraphData' = Graph(again.nodes, renderD3MindMap(again).links)
                      /\ heap' = again.heap
           /\ mode = "merge" =>
                  LET passed == PassedGraph
                  IN  /\ Len(currentGraphData'.nodes) = Len(passed.nodes)
                      /\ Len(currentGraphData'.links) = Len(passed.links)
                      /\ \A i \in 1..Len(passed.nodes) :
                             NodeView(currentGraphData'.nodes[i], heap')
                                 = NodeView(passed.nodes[i], passed.heap)
                      /\ \A k \in 1..Len(passed.links) :
                             LinkView(currentGraphData'.links[k],
                                      IdOf(Links[k].source)', IdOf(Links[k].target)', heap')
                                 = LinkView(passed.links[k], passed.links[k].source.str,
                                            passed.links[k].target.str, passed.heap)
      ]_vars

(* the urls arrays (by reference) of the nodes, then of the links *)
UrlRefs == [i \in NodeIdx |-> Nodes[i].urls] \o [k \in LinkIdx |-> Links[k].urls]

(* C21: after the build no two distinct nodes or edges hold the same urls   *)
(* array, also when two topic records have the same identifier; a push on  *)
(* the array of one element is then a push on that element alone.          *)
C21_OwnUrlsList ==
    (pc = "ready" /\ mode \in {"csv", "merge"}) =>
        \A a, b \in 1..Len(UrlRefs) : UrlRefs[a] = UrlRefs[b] => a = b

(* C22: the graph mergeUrlsIntoGraph returns holds only links whose source *)
(* and target are ids of nodes of the document: a link with a missing      *)
(* endpoint is absent from it, and the merge completes.                    *)
C22_MergeFiltersInvalidLinks ==
    (mode = "merge" /\ pc = "ready") =>
        /\ ~currentGraphData.isNull
        /\ \A k \in LinkIdx :
               /\ \E i \in 1..Len(graphData.nodes) :
                      graphData.nodes[i].id = IdOf(Links[k].source)
               /\ \E i \in 1..Len(graphData.nodes) :
                      graphData.nodes[i].id = IdOf(Links[k].target)

(* the links as the build returned them, before the render touched them *)
BuiltLinks ==
    IF mode = "csv"
    THEN createD3Graph(validTopicsOf(topics), validLinksOf(links), urlsData).links
    ELSE IF mode = "merge" THEN mergeUrlsIntoGraph(graphData, urlsData).links
    ELSE parseDoc(graphData, <<>>).links

(* the composite key of link l at build time, its ends being id strings *)
BuildKey(l) ==
    l.source.str \o <<PIPE>> \o l.target.str \o <<PIPE>>
        \o (IF mode = "csv" THEN l.relation ELSE l.type)

(* C23: the composite key the exporter computes for an edge is the key      *)
(* under which urls were attached to it at build time, also after the      *)
(* render has replaced the source and target ids by the node objects.      *)
C23_KeyStableAcrossRendering ==
    ~currentGraphData.isNull =>
        /\ Len(Links) = Len(BuiltLinks)
        /\ \A k \in LinkIdx : LinkKey(Links[k]) = BuildKey(BuiltLinks[k])

(* an export after the render, of a link whose ends are node objects and   *)
(* that holds a url                                                        *)
C23_Witness ==
    /\ Exported /\ rendered
    /\ \E k \in LinkIdx :
           /\ Links[k].source.obj /\ Links[k].target.obj
           /\ UrlsAt(heap, Links[k].urls) # <<>>

(* the flag that governs a link type, and the opacity configured for it *)
FlagOf(type) ==
    IF type \in {SubTopic, DependsOn, <<"extends">>, <<"semantically_similar">>}
    THEN linkVisibility[type]
    ELSE linkVisibility[<<"other">>]
ConfiguredOpacity(type) ==
    CASE type = SubTopic -> 10
      [] type = DependsOn -> 7
      [] type = <<"extends">> -> 5
      [] type = <<"semantically_similar">> -> 3
      [] OTHER -> 6

(* how the links are drawn agrees with the visibility flags *)
DrawnAsFlagged ==
    rendered =>
        /\ Len(linkDom) = Len(Links)
        /\ \A k \in LinkIdx :
               IF FlagOf(Links[k].type)
               THEN /\ linkDom[k].opacity = ConfiguredOpacity(Links[k].type)
                    /\ linkDom[k].pointer = "auto"
               ELSE /\ linkDom[k].opacity = 0
                    /\ linkDom[k].pointer = "none"

C25_CheckboxesAgree ==
    [][(mode = "json" /\ lastOp'.op \in {"toggle", "show", "reset"}) =>
           /\ panel'.type = "None" =>
                  \A t \in ToggleTypes : controls'.checked[t] = linkVisibility'[t]
           /\ lastOp'.op = "toggle" =>
                  linkVisibility' = [linkVisibility EXCEPT ![lastOp'.arg] = ~@]
      ]_vars

(* the loading screen is hidden: it carries the class 'hidden' or is not   *)
(* displayed                                                               *)
Hidden == loader.hiddenClass \/ loader.display = "none"

(* C26: the loading screen is eventually hidden, also when the load fails; *)
(* it is hidden only after the simulation has ended or the 10 second       *)
(* timeout has run; when the simulation ends with the timeout still set,   *)
(* the timeout is cancelled, and a cancelled timeout never runs; once      *)
(* hidden the screen is never shown again.                                 *)
C26_LoadingScreenHidden ==
    /\ <>Hidden
    /\ [](Hidden => (sim.state = "ended" \/ sim.restarts > 0 \/ loader.timeout = "fired"))
    /\ [][(lastOp'.op = "end" /\ loader.timeout = "armed") => loader'.timeout = "cleared"]_vars
    /\ [][loader.timeout = "cleared" => loader'.timeout = "cleared"]_vars
    /\ [][Hidden => Hidden']_vars

(* the simulation ended first: the timeout was cancelled and the screen is *)
(* gone                                                                    *)
C26_Witness ==
    /\ sim.state = "ended" /\ loader.timeout = "cleared"
    /\ loader.hiddenClass /\ loader.display = "none"

(* C29: a tick requests renderContours only when its number is at least 30 *)
(* and a multiple of 10; such a request leaves only the new animation      *)
(* frame pending, and a call of renderContours (from a frame or from the   *)
(* end of the simulation) leaves only the new debounce timer pending, so   *)
(* at most one of each is pending at any time; the end of the simulation   *)
(* calls renderContours once.                                              *)
C29_ContourThrottling ==
    /\ [](Cardinality(sim.rafs) <= 1 /\ Cardinality(sim.contourTimers) <= 1)
    /\ [][lastOp'.op = "tick" =>
            /\ sim'.requested <=> (sim'.tickCount >= 30 /\ sim'.tickCount % 10 = 0)
            /\ sim'.requested => (sim'.rafId # sim.rafId /\ sim'.rafs = {sim'.rafId})
            /\ ~sim'.requested => sim'.rafs = sim.rafs
            /\ sim'.contourTimers = sim.contourTimers]_vars
    /\ [][lastOp'.op \in {"frame", "end"} =>
            /\ sim'.ids = sim.ids + 1
            /\ sim'.timerId = sim'.ids
            /\ sim'.contourTimers = {sim'.timerId}]_vars

(* tick 40 requested the contours while the frame requested by tick 30 was *)
(* still pending: only the new frame is pending                            *)
C29_Witness ==
    /\ sim.tickCount = 40 /\ sim.requested
    /\ sim.ids = 2 /\ sim.rafs = {2}

(* C27: the search box of the json page.  An input event that leaves a     *)
(* query of length 0 or 1 empties the suggestion list and leaves no search *)
(* scheduled; an input event with a longer query leaves exactly the search *)
(* of that query scheduled, so of a burst only the last query is searched; *)
(* the search that runs is the scheduled one and its results are the ones  *)
(* displayed.                                                              *)
C27_SearchDebounce ==
    /\ [](Len(searchTimer) <= 1)
    /\ [][lastOp'.op = "input" =>
            IF Len(lastOp'.arg) <= 1
            THEN suggestions' = <<>> /\ searchTimer' = <<>>
            ELSE searchTimer' = <<lastOp'.arg>>]_vars
    /\ [][lastOp'.op = "search" =>
            /\ searchTimer = <<lastOp'.arg>> /\ searchTimer' = <<>>
            /\ suggestions' = displaySuggestions(fuzzySearch(lastOp'.arg, Nodes))]_vars
    /\ [][(suggestions' # suggestions /\ suggestions' # <<>>) => lastOp'.op = "search"]_vars

(* the last input event left one character in the box of the rendered     *)
(* page: the list is empty and no search is scheduled                      *)
C27_Witness ==
    /\ mode = "json" /\ rendered
    /\ lastOp.op = "input" /\ Len(lastOp.arg) = 1
    /\ suggestions = <<>> /\ searchTimer = <<>>

(* q is a subsequence of t: its characters appear in t in order *)
IsSubsequence(q, t) ==
    \E f \in [1..Len(q) -> 1..Len(t)] :
        /\ \A i \in 1..Len(q) : t[f[i]] = q[i]
        /\ \A i, j \in 1..Len(q) : i < j => f[i] < f[j]

(* C28: the search that runs returns exactly the nodes whose lower-cased   *)
(* name contains the lower-cased query as a subsequence, each once and     *)
(* with a score above 0, in order of non-increasing score; the first 10 of *)
(* them are displayed.                                                     *)
C28_FuzzySearch ==
    [][lastOp'.op = "search" =>
        LET res == fuzzySearch(lastOp'.arg, Nodes)
            matching == {n \in NodeIdx : IsSubsequence(toLowerCase(lastOp'.arg),
                                                       toLowerCase(Nodes[n].title))}
        IN  /\ {res[i].node : i \in 1..Len(res)} = matching
            /\ Len(res) = Cardinality(matching)
            /\ \A i \in 1..Len(res) : res[i].score.num > 0 /\ res[i].score.den > 0
            /\ \A i, j \in 1..Len(res) :
                   i < j => res[i].score.num * res[j].score.den
                              >= res[j].score.num * res[i].score.den
            /\ Len(suggestions') = (IF Len(res) < 10 THEN Len(res) ELSE 10)
            /\ \A i \in 1..Len(suggestions') : suggestions'[i] = res[i].node]_vars

(* a search with more than 10 matching nodes and a node that does not      *)
(* match: 10 suggestions are displayed                                     *)
C28_Witness ==
    /\ lastOp.op = "search" /\ Len(suggestions) = 10
    /\ Len(fuzzySearch(lastOp.arg, Nodes)) > 10
    /\ Len(fuzzySearch(lastOp.arg, Nodes)) < Len(Nodes)

(* C30: a click on the save button of the page runs exactly one click     *)
(* handler, however often the panel was opened and reset: with graph data  *)
(* loaded it exports once and alerts nothing, without it alerts 'no data'  *)
(* once and exports nothing.                                               *)
C30_OneClickOneExport ==
    [][lastOp'.op = "save" =>
        /\ lastOp'.arg = 1
        /\ IF currentGraphData.isNull
           THEN lastOp'.alert = AlertNoData /\ lastOp'.out = <<>>
           ELSE /\ lastOp'.alert = ""
                /\ lastOp'.out = saveUrlsToCsvEscaped(currentGraphData, heap)]_vars

(* an export from a button that resetControlsPanel made: the render had    *)
(* thrown before the checkboxes got their listeners, the reset added them  *)
C30_Witness ==
    /\ Exported /\ lastOp.arg = 1
    /\ ~rendered /\ controls.toggleListeners[SubTopic] = 1

====
